----------------------------- MODULE AcceptLoop -----------------------------
(***************************************************************************)
(* The processes of the server: main (server.c) accepts a connection,      *)
(* forks a child for it, and after a number of forks waits for the         *)
(* children whose pids it has kept, one after the other.                   *)
(*                                                                         *)
(* A child that leaves socketThread returns into the loop of main: it      *)
(* accepts connections itself, on the socket it has inherited, with the    *)
(* index and the pids it had when it was forked.  Only a child that is     *)
(* killed (SIGPIPE) or calls exit ends.  A child whose client goes away    *)
(* without EXIT stays in socketThread for ever: recv returns 0.  So does   *)
(* one whose client's EXIT is taken for a block by the loop of an upload.  *)
(***************************************************************************)
EXTENDS Naturals

CONSTANTS
  Slots,          \* length of the array pid; 50 in the code
  MaxProc,        \* bound of the model: processes that fork can make
  MaxConn,        \* bound of the model: connections ever made
  ClientsLost,    \* may a client go without an EXIT that socketThread reads
  OverreadKills   \* may the read of pid[Slots] end the process; the build of
                  \* the makefile checks nothing and prints what lies there

ASSUME AcceptAssumption ==
  /\ Slots \in Nat /\ Slots >= 2
  /\ MaxProc \in Nat \ {0} /\ MaxConn \in Nat
  /\ ClientsLost \in BOOLEAN
  /\ OverreadKills \in BOOLEAN

VARIABLES
  ppc,       \* where a process is
  parent,    \* who forked it
  idx,       \* i of main
  pid,       \* the array pid of main, as the process has it
  pending,   \* connections that wait in the backlog
  made       \* connections made so far

vars == <<ppc, parent, idx, pid, pending, made>>

Proc == 1..MaxProc
Root == 1

(* What waitpid may be given that is no process: the last element of pid   *)
(* is never assigned, and stands for any of the children or for none.      *)
AnyChild == 0
NoChild  == MaxProc + 1
Pid      == 0..(MaxProc + 1)

ProcState == {"unborn", "accept", "serve", "spin", "wait", "zombie", "reaped"}

Init ==
  /\ ppc = [p \in Proc |-> IF p = Root THEN "accept" ELSE "unborn"]
  /\ parent = [p \in Proc |-> Root]
  /\ idx = [p \in Proc |-> 0]
  /\ \E garbage \in {AnyChild, NoChild} :
       pid = [p \in Proc |-> [k \in 0..(Slots - 1) |-> garbage]]
  /\ pending = 0
  /\ made = 0

Unborn == {p \in Proc : ppc[p] = "unborn"}
Live   == {p \in Proc : ppc[p] \in {"accept", "serve", "spin", "wait"}}

-----------------------------------------------------------------------------
(* A client connects.                                                      *)
Connect ==
  /\ made < MaxConn
  /\ made' = made + 1
  /\ pending' = pending + 1
  /\ UNCHANGED <<ppc, parent, idx, pid>>

FullBug(k) == k > Slots                       \* the index runs off the array

Full(k) == k >= Slots - 1

(* The branch of the parent: it keeps the result of fork, and turns to     *)
(* waiting when it has kept enough.                                        *)
KeptPid(p, x) == [pid EXCEPT ![p][idx[p]] = x]
NextIdx(p)    == [idx EXCEPT ![p] = IF Full(@ + 1) THEN 0 ELSE @ + 1]
NextPpc(p)    == [ppc EXCEPT ![p] = IF Full(idx[p] + 1) THEN "wait" ELSE "accept"]

(* accept and fork.  The child has a copy of the index and of the array as *)
(* they were before.                                                       *)
Accept(p) ==
  /\ ppc[p] = "accept"
  /\ pending > 0
  /\ pending' = pending - 1
  /\ UNCHANGED made
  /\ \E c \in Unborn :
       /\ \A q \in Unborn : c <= q
       /\ parent' = [parent EXCEPT ![c] = p]
       /\ pid' = [KeptPid(p, c) EXCEPT ![c] = pid[p]]
       /\ idx' = [NextIdx(p) EXCEPT ![c] = idx[p]]
       /\ ppc' = [NextPpc(p) EXCEPT ![c] = "serve"]

(* fork fails: its -1 is kept as a pid, and nobody serves the connection.  *)
ForkFails(p) ==
  /\ ppc[p] = "accept"
  /\ pending > 0
  /\ pending' = pending - 1
  /\ pid' = KeptPid(p, AnyChild)
  /\ idx' = NextIdx(p)
  /\ ppc' = NextPpc(p)
  /\ UNCHANGED <<parent, made>>

(* socketThread reads the EXIT of its client, and returns into the loop of *)
(* main.                                                                   *)
Return(c) ==
  /\ ppc[c] = "serve"
  /\ ppc' = [ppc EXCEPT ![c] = "accept"]
  /\ UNCHANGED <<parent, idx, pid, pending, made>>

(* SIGPIPE in send, or exit(EXIT_FAILURE) in createNewFolder.              *)
Killed(c) ==
  /\ ppc[c] = "serve"
  /\ ppc' = [ppc EXCEPT ![c] = "zombie"]
  /\ UNCHANGED <<parent, idx, pid, pending, made>>

(* The loop of an upload takes the EXIT of its client for a block, and the *)
(* client closes: recv returns 0 from now on.                              *)
Swallow(c) ==
  /\ ClientsLost
  /\ ppc[c] = "serve"
  /\ ppc' = [ppc EXCEPT ![c] = "spin"]
  /\ UNCHANGED <<parent, idx, pid, pending, made>>

(* The client goes away without EXIT.                                      *)
Vanish(c) ==
  /\ ClientsLost
  /\ ppc[c] = "serve"
  /\ ppc' = [ppc EXCEPT ![c] = "spin"]
  /\ UNCHANGED <<parent, idx, pid, pending, made>>

-----------------------------------------------------------------------------
ChildrenBug(p) ==                             \* any process of the array is polled
  {c \in Proc \ {p} : ppc[c] \notin {"unborn", "reaped"}}

Children(p) == {c \in Proc \ {p} : parent[c] = p /\ ppc[c] \notin {"unborn", "reaped"}}

(* What waitpid(x) of p can wait for: a child, or any.                     *)
Awaited(p, x) == IF x = AnyChild THEN Children(p) ELSE Children(p) \cap {x}

(* waitpid returns: one of the awaited has ended, or there is none.        *)
WaitReturns(p) ==
  LET a == Awaited(p, pid[p][idx[p]]) IN
    a = {} \/ \E c \in a : ppc[c] = "zombie"

(* Where a turn of the waiting loop leads.  The index is moved on before   *)
(* the pid is printed, so the last turn reads pid[Slots], beyond the array.*)
AfterWait(p) ==
  IF idx[p] + 1 < Slots THEN {"wait"}
  ELSE {"accept"} \cup (IF OverreadKills THEN {"zombie"} ELSE {})

(* One turn of the waiting loop, over all Slots elements of the array.     *)
WaitNext(p) ==
  LET ended == {c \in Awaited(p, pid[p][idx[p]]) : ppc[c] = "zombie"} IN
    /\ ppc[p] = "wait"
    /\ WaitReturns(p)
    /\ \E to \in AfterWait(p) :
         LET next == [ppc EXCEPT ![p] = to] IN
           IF ended = {} THEN ppc' = next
           ELSE \E c \in ended : ppc' = [next EXCEPT ![c] = "reaped"]
    /\ idx' = [idx EXCEPT ![p] = IF @ + 1 = Slots THEN 0 ELSE @ + 1]
    /\ UNCHANGED <<parent, pid, pending, made>>

Step(p) == Accept(p) \/ ForkFails(p) \/ WaitNext(p)

Next ==
  \/ Connect
  \/ \E p \in Proc : Step(p) \/ Return(p) \/ Killed(p) \/ Swallow(p) \/ Vanish(p)

Spec == Init /\ [][Next]_vars

(* The kernel runs every process that can go on.  Nothing obliges a user   *)
(* to log out.                                                             *)
FairSpec == Spec /\ \A p \in Proc : WF_vars(Step(p))

-----------------------------------------------------------------------------
TypeOK ==
  /\ ppc \in [Proc -> ProcState]
  /\ parent \in [Proc -> Proc]
  /\ idx \in [Proc -> 0..(Slots - 1)]
  /\ pid \in [Proc -> [0..(Slots - 1) -> Pid]]
  /\ pending \in 0..MaxConn
  /\ made \in 0..MaxConn

(* The waiting alone never wedges the server: some process accepts, serves *)
(* or is about to leave waitpid, or is the victim of a lost client.  No    *)
(* two processes wait for each other, whatever pids they inherit.  Only    *)
(* the read beyond pid may end them all.                                   *)
NotWedged ==
  \/ OverreadKills /\ Live = {}
  \/ \E p \in Live : \/ ppc[p] \in {"accept", "serve", "spin"}
                     \/ ppc[p] = "wait" /\ WaitReturns(p)

(* No child is kept by its client for ever: users log out, their EXIT is   *)
(* read by socketThread, and no client vanishes.                           *)
ClientsLeave == \A p \in Proc : []<>(ppc[p] \notin {"serve", "spin"})

(* Every connection of the backlog is accepted in the end, though every    *)
(* process stops accepting after so many forks, as long as no child is     *)
(* kept by its client: the children that return accept in the place of     *)
(* those that wait.  (Accepted, not served: where fork fails, nobody       *)
(* serves the connection.)                                                 *)
BacklogDrains == ClientsLeave => (pending > 0 ~> (pending = 0 \/ Live = {}))

(* "Child %d terminated": a wait, once begun, ends, if no child is kept by *)
(* its client.                                                             *)
WaitEnds == ClientsLeave => \A p \in Proc : ppc[p] = "wait" ~> ppc[p] # "wait"

=============================================================================
