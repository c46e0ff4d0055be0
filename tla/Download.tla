------------------------------ MODULE Download ------------------------------
(***************************************************************************)
(* What the client and the server of mp1 promise together.  The output     *)
(* file grows piece by piece as a prefix of the file asked for.  A client  *)
(* whose connection did not fail ends with all of the file, or with        *)
(* nothing: never with a part of it.                                       *)
(***************************************************************************)
EXTENDS Naturals, Sequences

CONSTANT Clients

VARIABLES
  content,          \* what each client asks for, <<>> if there is no such file
  saved,            \* the output files
  ended,
  failed            \* connections that failed

Init ==
  /\ saved = [c \in Clients |-> <<>>]
  /\ ended = {}
  /\ failed = {}

Save(c) ==
  /\ c \notin ended
  /\ \E n \in Len(saved[c]) + 1 .. Len(content[c]) :
       saved' = [saved EXCEPT ![c] = SubSeq(content[c], 1, n)]
  /\ UNCHANGED <<content, ended, failed>>

Fail(c) ==
  /\ failed' = failed \cup {c}
  /\ UNCHANGED <<content, saved, ended>>

End(c) ==
  /\ c \notin ended
  /\ c \in failed \/ saved[c] \in {<<>>, content[c]}
  /\ ended' = ended \cup {c}
  /\ UNCHANGED <<content, saved, failed>>

Next == \E c \in Clients : Save(c) \/ Fail(c) \/ End(c)

Spec == Init /\ [][Next]_<<content, saved, ended, failed>>
=============================================================================
