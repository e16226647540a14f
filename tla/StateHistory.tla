---------------------------- MODULE StateHistory ----------------------------
(***************************************************************************)
(* What the versions of one state promise to whoever reads them: a state   *)
(* appears empty, versions are appended under growing serials and in one   *)
(* lineage, none is changed or lost, the newest is the current one, and    *)
(* only deleting the state ends all that.                                  *)
(***************************************************************************)
EXTENDS Naturals

CONSTANTS MaxSerial, Contents, Lineages, NoLineage

VARIABLES exists, content, lineage, head

history == <<exists, content, lineage, head>>

Serials == 0..MaxSerial

Empty == [s \in Serials |-> NoLineage]

Init == exists = FALSE /\ content = Empty /\ lineage = Empty /\ head = 0

Create ==
  /\ ~exists /\ exists' = TRUE
  /\ UNCHANGED <<content, lineage, head>>

Append(s, c, l) ==
  /\ exists
  /\ \A k \in Serials : content[k] # NoLineage => k < s /\ lineage[k] = l
  /\ content' = [content EXCEPT ![s] = c]
  /\ lineage' = [lineage EXCEPT ![s] = l]
  /\ head'    = s
  /\ UNCHANGED exists

Delete ==
  /\ exists /\ exists' = FALSE
  /\ content' = Empty /\ lineage' = Empty /\ head' = 0

Next ==
  \/ Create \/ Delete
  \/ \E s \in Serials, c \in Contents, l \in Lineages : Append(s, c, l)

Spec == Init /\ [][Next]_history
=============================================================================
