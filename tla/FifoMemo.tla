------------------------------ MODULE FifoMemo ------------------------------
(***************************************************************************)
(* What the in-memory caches of loaded weights promise their callers       *)
(* (MaterializationCache, PrefillRangeWeightCache): a bounded memo table,  *)
(* oldest entry first, that answers every call in one indivisible step.    *)
(* A call for a key in the table gets the value that is there; any other   *)
(* call gets a value loaded for it, which enters the table in place of the *)
(* oldest one when the table is full.  Locks, and loads of which the value *)
(* is thrown away, do not appear here.                                     *)
(***************************************************************************)
EXTENDS Naturals, Sequences

CONSTANTS
  Callers,     (* threads                                                    *)
  Programs,    (* what they may call: functions from callers to key lists    *)
  Capacities,  (* possible sizes of the table                                *)
  NoKey,       (* a call without a key: never memoised                       *)
  MayFail      (* whether a load can fail                                    *)

VARIABLES
  program,   (* the calls each caller makes                                  *)
  capacity,  (* the size of the table                                        *)
  table,     (* the values in the table, oldest first                        *)
  answers    (* the values each caller has got                               *)

vars == <<program, capacity, table, answers>>

(* A value: the key it was loaded for, and the call that loaded it. *)
Pending(c) == Len(answers[c]) < Len(program[c])
Key(c) == program[c][Len(answers[c]) + 1]
Fresh(c) == <<Key(c), c, Len(answers[c]) + 1>>
Failed == <<>>

Answer(c, value) == answers' = [answers EXCEPT ![c] = Append(@, value)]

Memoised(c) == Key(c) # NoKey /\ capacity > 0
Hit(c) == {i \in DOMAIN table : table[i][1] = Key(c)}

Init ==
  /\ program \in Programs /\ capacity \in Capacities
  /\ table = <<>>
  /\ answers = [c \in Callers |-> <<>>]

(* The value is in the table. *)
Reuse(c) ==
  /\ Pending(c) /\ Memoised(c)
  /\ \E i \in Hit(c) : Answer(c, table[i])
  /\ UNCHANGED <<program, capacity, table>>

(* It is not: a value is loaded and kept. *)
Load(c) ==
  /\ Pending(c) /\ Memoised(c) /\ Hit(c) = {}
  /\ Answer(c, Fresh(c))
  /\ table' = Append(IF Len(table) < capacity THEN table ELSE Tail(table), Fresh(c))
  /\ UNCHANGED <<program, capacity>>

(* Without a key, or without a table, a value is loaded and not kept. *)
Bypass(c) ==
  /\ Pending(c) /\ ~Memoised(c)
  /\ Answer(c, Fresh(c))
  /\ UNCHANGED <<program, capacity, table>>

(* A load may fail, also when another caller has memoised the key since.   *)
Fail(c) ==
  /\ MayFail /\ Pending(c)
  /\ Answer(c, Failed)
  /\ UNCHANGED <<program, capacity, table>>

Call(c) == Reuse(c) \/ Load(c) \/ Bypass(c) \/ Fail(c)
Next == \E c \in Callers : Call(c)

Spec == Init /\ [][Next]_vars
FairSpec == Spec /\ \A c \in Callers : WF_vars(Call(c))
=============================================================================
