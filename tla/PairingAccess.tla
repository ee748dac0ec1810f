---------------------------- MODULE PairingAccess ----------------------------
(***************************************************************************)
(* What a host promises about paired access, whatever happens to the files *)
(* behind it.  A pair ID is bound to one request for ever; a line reaches  *)
(* the keys file only for a grant on record that nobody has revoked; a     *)
(* receipt is issued only for a line that sshd reads; "revoked" is         *)
(* reported only once the line is gone; a revoked pair never comes back by *)
(* the host's own doing.  While a replacement of the keys file is          *)
(* stranded half-way sshd reads no line at all.                            *)
(***************************************************************************)
EXTENDS Naturals

CONSTANTS Pairs, Intents, PairOf, NoIntent

VARIABLES
  grant,     \* the request a pair ID is bound to
  tomb,      \* the pairs whose revocation is on record
  present,   \* the pairs whose exact line is in the keys file or its backup
  stranded,  \* the keys file is missing in the middle of a replacement
  issued,    \* requests whose receipt the operator has been given
  revoked,   \* pairs the host has reported as revoked
  edits      \* how often the keys file was edited by hand

accessVars == <<grant, tomb, present, stranded, issued, revoked, edits>>

Init ==
  /\ grant = [p \in Pairs |-> NoIntent]
  /\ tomb = {} /\ present = {} /\ stranded = FALSE
  /\ issued = {} /\ revoked = {} /\ edits = 0

\* A line that somebody had put there by hand becomes the line of the new grant.
Record(i) ==
  LET p == PairOf[i]
  IN  /\ grant[p] = NoIntent
      /\ grant' = [grant EXCEPT ![p] = i]
      /\ present' \in {present, present \cup {p}}
      /\ UNCHANGED <<tomb, stranded, issued, revoked, edits>>

Admit(p) ==
  /\ grant[p] # NoIntent /\ p \notin tomb
  /\ present' = present \cup {p} /\ stranded' = FALSE
  /\ UNCHANGED <<grant, tomb, issued, revoked, edits>>

Issue(i) ==
  /\ grant[PairOf[i]] = i /\ PairOf[i] \in present \ tomb /\ ~stranded
  /\ issued' = issued \cup {i}
  /\ UNCHANGED <<grant, tomb, present, stranded, revoked, edits>>

Bury(p) ==
  /\ grant[p] # NoIntent
  /\ tomb' = tomb \cup {p}
  /\ UNCHANGED <<grant, present, stranded, issued, revoked, edits>>

Remove(p) ==
  /\ p \in tomb
  /\ present' = present \ {p} /\ stranded' = FALSE
  /\ UNCHANGED <<grant, tomb, issued, revoked, edits>>

Report(p) ==
  /\ p \in tomb /\ (p \notin present \/ stranded)
  /\ revoked' = revoked \cup {p}
  /\ UNCHANGED <<grant, tomb, present, stranded, issued, edits>>

Strand ==
  /\ stranded' = ~stranded
  /\ UNCHANGED <<grant, tomb, present, issued, revoked, edits>>

EditByHand ==
  /\ present' \in SUBSET {p \in Pairs : grant[p] # NoIntent}
  /\ edits' = edits + 1
  /\ UNCHANGED <<grant, tomb, stranded, issued, revoked>>

Next ==
  \/ \E i \in Intents : Record(i) \/ Issue(i)
  \/ \E p \in Pairs : Admit(p) \/ Bury(p) \/ Remove(p) \/ Report(p)
  \/ Strand \/ EditByHand

Spec == Init /\ [][Next]_accessVars

=============================================================================
