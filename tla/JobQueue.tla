------------------------------ MODULE JobQueue ------------------------------
(***************************************************************************)
(* What the thread pool promises its clients (pool.h): a job that was      *)
(* accepted is executed exactly once, and jobs are started in the order in *)
(* which they were accepted.  Nothing is said here about threads, locks,   *)
(* condition variables or the circular buffer: ThreadPool shows that they  *)
(* implement this specification.                                           *)
(***************************************************************************)
EXTENDS Naturals, Sequences

CONSTANT Jobs        \* everything a client may ever submit

VARIABLES
  waiting,           \* accepted jobs no worker has started, oldest first
  running,           \* jobs some worker is executing
  done               \* jobs whose function has returned

jqVars == <<waiting, running, done>>

JQInit ==
  /\ waiting = <<>>
  /\ running = {}
  /\ done = {}

\* A client hands over a job that was never submitted before.
Submit(j) ==
  /\ j \notin running \cup done
  /\ \A i \in 1 .. Len(waiting) : waiting[i] # j
  /\ waiting' = Append(waiting, j)
  /\ UNCHANGED <<running, done>>

\* Some worker starts the oldest waiting job.
Start ==
  /\ waiting # <<>>
  /\ running' = running \cup {Head(waiting)}
  /\ waiting' = Tail(waiting)
  /\ UNCHANGED done

\* A job function returns.
Finish(j) ==
  /\ j \in running
  /\ running' = running \ {j}
  /\ done' = done \cup {j}
  /\ UNCHANGED waiting

JQNext ==
  \/ \E j \in Jobs : Submit(j)
  \/ Start
  \/ \E j \in Jobs : Finish(j)

JQSpec == JQInit /\ [][JQNext]_jqVars

=============================================================================
