---------------------------- MODULE CommandStream ----------------------------
(***************************************************************************)
(* What a queue promises the callers of submit(): the packets it accepted  *)
(* are executed whole, once, in the order in which they were accepted, and *)
(* a call that returns an error has put nothing in the stream.             *)
(***************************************************************************)
EXTENDS Naturals, Sequences

CONSTANTS Calls,   \* identities of the calls of submit()
          Sizes    \* the lengths a packet may have, in dwords

VARIABLES dwords,    \* the length each call was given
          result,    \* what each call returned
          accepted,  \* the calls whose packets entered the stream, in order
          executed   \* what the engine executed, in order

vars == <<dwords, result, accepted, executed>>

InStream(c) == \E i \in DOMAIN accepted : accepted[i] = c

Init ==
  /\ dwords = [c \in Calls |-> 0]
  /\ result = [c \in Calls |-> "none"]
  /\ accepted = <<>>
  /\ executed = <<>>

Begin(c, n) ==
  /\ result[c] = "none"
  /\ dwords' = [dwords EXCEPT ![c] = n]
  /\ result' = [result EXCEPT ![c] = "running"]
  /\ UNCHANGED <<accepted, executed>>

Accept(c) ==
  /\ result[c] = "running" /\ dwords[c] > 0 /\ ~InStream(c)
  /\ accepted' = Append(accepted, c)
  /\ UNCHANGED <<dwords, result, executed>>

(* A submission of no dwords succeeds without entering the stream.         *)
Succeed(c) ==
  /\ result[c] = "running"
  /\ dwords[c] = 0 \/ InStream(c)
  /\ result' = [result EXCEPT ![c] = "ok"]
  /\ UNCHANGED <<dwords, accepted, executed>>

Fail(c) ==
  /\ result[c] = "running" /\ ~InStream(c)
  /\ \E e \in {"EMSGSIZE", "ETIMEDOUT"} : result' = [result EXCEPT ![c] = e]
  /\ UNCHANGED <<dwords, accepted, executed>>

Execute ==
  /\ Len(executed) < Len(accepted)
  /\ executed' = Append(executed, accepted[Len(executed) + 1])
  /\ UNCHANGED <<dwords, result, accepted>>

Next ==
  \/ \E c \in Calls, n \in Sizes : Begin(c, n)
  \/ \E c \in Calls : Accept(c) \/ Succeed(c) \/ Fail(c)
  \/ Execute

Spec == Init /\ [][Next]_vars
=============================================================================
