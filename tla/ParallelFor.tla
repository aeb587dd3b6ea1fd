---------------------------- MODULE ParallelFor ----------------------------
(***************************************************************************)
(* What ThreadPool::parallel_for promises its caller: the n tasks of a     *)
(* call are handed out once each, and the call returns when none is left   *)
(* and none is being executed.                                             *)
(***************************************************************************)
EXTENDS Integers

CONSTANTS
  Clients,     \* threads that call parallel_for
  TaskCounts,  \* the numbers of tasks a call may have
  NoCall       \* nobody is calling

VARIABLES
  who,   \* the client whose call is being served
  todo,  \* tasks of that call nobody has taken
  doing  \* tasks of that call being executed

pfvars == <<who, todo, doing>>

PFInit ==
  /\ who = NoCall
  /\ todo = {}
  /\ doing = {}

Call(c, n) ==
  /\ who = NoCall
  /\ n > 0
  /\ who' = c
  /\ todo' = 0 .. (n - 1)
  /\ doing' = {}

Take(k) ==
  /\ k \in todo
  /\ todo' = todo \ {k}
  /\ doing' = doing \cup {k}
  /\ UNCHANGED who

Done(k) ==
  /\ k \in doing
  /\ doing' = doing \ {k}
  /\ UNCHANGED <<who, todo>>

\* A worker gives back task k and takes task j in one critical section.
DoneAndTake(k, j) ==
  /\ k \in doing /\ j \in todo
  /\ todo' = todo \ {j}
  /\ doing' = (doing \ {k}) \cup {j}
  /\ UNCHANGED who

Return ==
  /\ who # NoCall
  /\ todo = {} /\ doing = {}
  /\ who' = NoCall
  /\ UNCHANGED <<todo, doing>>

PFNext ==
  \/ \E c \in Clients, n \in TaskCounts : Call(c, n)
  \/ \E k \in todo : Take(k)
  \/ \E k \in doing : Done(k)
  \/ \E k \in doing, j \in todo : DoneAndTake(k, j)
  \/ Return

PFSpec == PFInit /\ [][PFNext]_pfvars

=============================================================================
