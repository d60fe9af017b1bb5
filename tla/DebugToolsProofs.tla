-------------------------- MODULE DebugToolsProofs --------------------------
(***************************************************************************)
(* TLAPS proofs about DebugTools.tla, for any clients and workloads, any   *)
(* number of processes, any durations and any grace.                       *)
(***************************************************************************)
EXTENDS DebugTools, SequenceTheorems, TLAPS

\* What a sequence over a set has at each place.
LEMMA SeqElement ==
  ASSUME NEW S, NEW s \in Seq(S), NEW i \in DOMAIN s
  PROVE  s[i] \in S /\ i \in 1 .. Len(s)
BY LenProperties

\* A function on 1 .. n is a sequence of length n.
LEMMA SequenceOf ==
  ASSUME NEW S, NEW n \in Nat, NEW f \in [1 .. n -> S]
  PROVE  f \in Seq(S) /\ Len(f) = n
<1>1. f \in Seq(S)
  BY SeqDef
<1>2. DOMAIN f = 1 .. Len(f) /\ Len(f) \in Nat
  BY <1>1, LenProperties
<1>3. 1 .. n = 1 .. Len(f)
  BY <1>2
<1> QED BY <1>1, <1>2, <1>3

\* What is left of a sequence of two elements or more.
LEMMA LongTail ==
  ASSUME NEW S, NEW s \in Seq(S), s # <<>>, Len(s) # 1
  PROVE  Tail(s) \in Seq(S) /\ Tail(s) # <<>>
<1>1. Len(s) \in Nat /\ Len(s) # 0
  BY EmptySeq, LenProperties
<1>2. Tail(s) \in Seq(S) /\ Len(Tail(s)) = Len(s) - 1
  BY HeadTailProperties
<1>3. Len(Tail(s)) # 0
  BY <1>1, <1>2
<1>4. Tail(s) = <<>> => Len(Tail(s)) = 0
  BY <1>2, EmptySeq
<1> QED BY <1>2, <1>3, <1>4

\* What a workload is made of.
LEMMA WorkType ==
  ASSUME load \in DOMAIN Workloads
  PROVE  /\ Work.requests \subseteq Requests
         /\ Work.procs \in 0 .. MaxProcs
         /\ Work.clients \subseteq Clients
<1> DEFINE W == [settings : Settings, clients : SUBSET Clients, requests : SUBSET Requests, procs : 0 .. MaxProcs]
<1>1. Workloads \in Seq(W)
  BY ToolsAssumption
<1>2. Workloads[load] \in W
  <2> HIDE DEF W
  <2> QED BY <1>1, SeqElement
<1> QED BY <1>2 DEF Work

\* A request that is waited for is a record.
LEMMA PendingReq ==
  ASSUME TypeOK, NEW c \in Clients, NEW here, At(c, here)
  PROVE  req[c] \in Pending /\ req[c].request \in Requests
BY DEF TypeOK, At, Pending

\* The place of a process gets another process.
LEMMA ProcessSet ==
  ASSUME TypeOK, NEW p \in DOMAIN procs, NEW q \in Processes, procs' = [procs EXCEPT ![p] = q]
  PROVE  /\ procs' \in Seq(Processes)
         /\ Len(procs') = Len(procs)
         /\ DOMAIN procs' = DOMAIN procs
         /\ \A i \in DOMAIN procs : procs'[i] = IF i = p THEN q ELSE procs[i]
<1>1. procs \in Seq(Processes) /\ p \in 1 .. Len(procs)
  BY DEF TypeOK
<1> QED BY <1>1, ExceptSeq, LenProperties

\* The place of a cleanup task gets another one, of the same processes.
LEMMA TaskSet ==
  ASSUME TypeOK, NEW t \in DOMAIN tasks, NEW q \in Cleanups, tasks' = [tasks EXCEPT ![t] = q]
  PROVE  /\ tasks' \in Seq(Cleanups)
         /\ Len(tasks') = Len(tasks)
         /\ DOMAIN tasks' = DOMAIN tasks
         /\ \A i \in DOMAIN tasks : tasks'[i] = IF i = t THEN q ELSE tasks[i]
<1>1. tasks \in Seq(Cleanups) /\ t \in 1 .. Len(tasks)
  BY DEF TypeOK
<1> QED BY <1>1, ExceptSeq, LenProperties

\* A process of a spike is well-typed.
LEMMA ProcType ==
  ASSUME NEW r \in Requests
  PROVE  Proc(r) \in Processes
BY ToolsAssumption DEF Proc, Processes, Requests

\* What a spike does: n processes are started and listed, and if those are
\* all it was asked for, a task is to clean them up.
LEMMA SpikeStep ==
  ASSUME TypeOK, NEW c \in Clients, Spike(c)
  PROVE  \E n \in Nat, r \in Requests :
           /\ Len(procs) + n <= MaxProcs
           /\ procs' \in Seq(Processes) /\ Len(procs') = Len(procs) + n
           /\ \A p \in DOMAIN procs' : procs'[p] = IF p <= Len(procs) THEN procs[p] ELSE Proc(r)
           /\ active' = active \cup (Len(procs) + 1 .. Len(procs) + n)
           /\ \/ tasks' = tasks
              \/ n >= 1 /\ tasks' = Append(tasks, Cleanup(r, Len(procs) + 1, Len(procs) + n))
<1>1. PICK n \in 0 .. req[c].request.cores :
        /\ Len(procs) + n <= Work.procs
        /\ procs' = procs \o [i \in 1 .. n |-> Proc(req[c].request)]
        /\ active' = active \cup (Len(procs) + 1 .. Len(procs) + n)
        /\ tasks' = IF n = req[c].request.cores
                    THEN Append(tasks, Cleanup(req[c].request, Len(procs) + 1, Len(procs) + n)) ELSE tasks
  BY DEF Spike
<1> DEFINE r == req[c].request
           new == [i \in 1 .. n |-> Proc(r)]
<1>2. r \in Requests /\ r.cores \in 1 .. MaxProcs
  BY PendingReq DEF Spike, Requests
<1>3. n \in Nat /\ (n = r.cores => n >= 1)
  BY <1>2, ToolsAssumption
<1>4. new \in Seq(Processes) /\ Len(new) = n /\ \A i \in 1 .. n : new[i] = Proc(r)
  <2>1. Proc(r) \in Processes
    BY <1>2, ProcType
  <2>2. new \in [1 .. n -> Processes]
    BY <2>1
  <2> QED BY <1>3, <2>2
<1>5. procs \in Seq(Processes) /\ load \in DOMAIN Workloads
  BY DEF TypeOK
<1> HIDE DEF new
<1>6. /\ procs' \in Seq(Processes) /\ Len(procs') = Len(procs) + n
      /\ \A i \in 1 .. Len(procs) + n : procs'[i] = IF i <= Len(procs) THEN procs[i] ELSE new[i - Len(procs)]
  <2>1. procs' = procs \o new
    BY <1>1 DEF new
  <2> QED BY <2>1, <1>4, <1>5, ConcatProperties
<1>7. \A p \in DOMAIN procs' : procs'[p] = IF p <= Len(procs) THEN procs[p] ELSE Proc(r)
  BY <1>3, <1>4, <1>5, <1>6
<1>8. Len(procs) + n <= MaxProcs
  BY <1>1, <1>3, <1>5, WorkType, ToolsAssumption
<1> QED BY <1>1, <1>2, <1>3, <1>6, <1>7, <1>8

\* A step that only concerns one client's request keeps the types.
LEMMA RequestStep ==
  ASSUME TypeOK, NEW c \in Clients, NEW r \in Pending \cup {None},
         (r # None /\ r.at = "command") => r.todo # <<>>,
         req' = [req EXCEPT ![c] = r], UNCHANGED <<spikes, load>>
  PROVE  TypeOK'
<1>1. req' \in [Clients -> Pending \cup {None}]
  BY DEF TypeOK
<1>2. \A d \in Clients : At(d, "command")' => req'[d].todo # <<>>
  BY DEF TypeOK, At
<1> QED BY <1>1, <1>2 DEF TypeOK, spikes

\* A step of one process keeps the types.
LEMMA ProcessStep ==
  ASSUME TypeOK, NEW p \in DOMAIN procs, NEW q \in Processes, procs' = [procs EXCEPT ![p] = q],
         UNCHANGED <<req, active, tasks, loop, load>>
  PROVE  TypeOK'
<1>1. procs' \in Seq(Processes) /\ Len(procs') = Len(procs) /\ DOMAIN procs' = DOMAIN procs
  BY ProcessSet
<1>2. \A c \in Clients : At(c, "command")' => req'[c].todo # <<>>
  BY DEF TypeOK, At
<1> QED BY <1>1, <1>2 DEF TypeOK

\* A step of one cleanup task, and of the process it has got to, keeps them.
LEMMA TaskStep ==
  ASSUME TypeOK, NEW t \in DOMAIN tasks, NEW q \in Cleanups, tasks' = [tasks EXCEPT ![t] = q],
         q.first <= q.next, q.next <= q.last, q.last <= Len(procs),
         \/ procs' = procs
         \/ \E p \in DOMAIN procs, r \in Processes : procs' = [procs EXCEPT ![p] = r],
         active' \subseteq active, loop' \in DOMAIN tasks \cup {None}, UNCHANGED <<req, load>>
  PROVE  TypeOK'
<1>1. procs' \in Seq(Processes) /\ Len(procs') = Len(procs) /\ DOMAIN procs' = DOMAIN procs
  BY ProcessSet DEF TypeOK
<1>2. /\ tasks' \in Seq(Cleanups) /\ DOMAIN tasks' = DOMAIN tasks
      /\ \A i \in DOMAIN tasks : tasks'[i] = IF i = t THEN q ELSE tasks[i]
  BY TaskSet
<1>3. \A c \in Clients : At(c, "command")' => req'[c].todo # <<>>
  BY DEF TypeOK, At
<1>4. \A i \in DOMAIN tasks' : /\ tasks'[i].first <= tasks'[i].next /\ tasks'[i].next <= tasks'[i].last
                              /\ tasks'[i].last <= Len(procs')
  BY <1>1, <1>2 DEF TypeOK
<1> QED BY <1>1, <1>2, <1>3, <1>4 DEF TypeOK

\* Close() of the process a task has got to keeps the types.
LEMMA CloseStep ==
  ASSUME TypeOK, NEW t \in DOMAIN tasks, Close(t), UNCHANGED <<req, procs, load>>
  PROVE  TypeOK'
<1>1. /\ tasks[t] \in Cleanups /\ tasks[t].first <= tasks[t].next /\ tasks[t].next <= tasks[t].last
      /\ tasks[t].last <= Len(procs) /\ Len(procs) \in Nat
  BY SeqElement, LenProperties DEF TypeOK
<1>2. CASE tasks[t].next = tasks[t].last
  <2> DEFINE q == [tasks[t] EXCEPT !.at = "done"]
  <2>1. q \in Cleanups /\ q.first = tasks[t].first /\ q.next = tasks[t].next /\ q.last = tasks[t].last
    BY <1>1 DEF Cleanups
  <2>2. tasks' = [tasks EXCEPT ![t] = q] /\ active' \subseteq active /\ loop' = None
    BY <1>2 DEF Close
  <2> HIDE DEF q
  <2> QED BY <1>1, <2>1, <2>2, TaskStep
<1>3. CASE tasks[t].next # tasks[t].last
  <2> DEFINE q == [tasks[t] EXCEPT !.at = "check", !.next = @ + 1]
  <2>0. tasks[t].next + 1 \in 1 .. MaxProcs /\ tasks[t].first <= tasks[t].next + 1 /\ tasks[t].next + 1 <= tasks[t].last
    BY <1>1, <1>3, ToolsAssumption DEF Cleanups
  <2>1. /\ q \in Cleanups /\ q.first = tasks[t].first /\ q.last = tasks[t].last
        /\ q.next = tasks[t].next + 1
    BY <1>1, <2>0 DEF Cleanups
  <2>2. tasks' = [tasks EXCEPT ![t] = q] /\ active' = active /\ loop' = loop
    BY <1>3 DEF Close
  <2>3. loop' \in DOMAIN tasks \cup {None}
    BY <2>2 DEF TypeOK
  <2> HIDE DEF q
  <2> QED BY <1>1, <2>0, <2>1, <2>2, <2>3, TaskStep
<1> QED BY <1>2, <1>3

\* So does a task that goes to another place, as its process becomes s.
LEMMA PlaceStep ==
  ASSUME TypeOK, NEW t \in DOMAIN tasks,
         NEW at \in {"check", "join", "close", "failed"}, tasks' = [tasks EXCEPT ![t].at = at],
         NEW s \in {"terminated", "killed"}, procs' = procs \/ Become(tasks[t].next, s),
         active' = active, loop' \in DOMAIN tasks \cup {None}, UNCHANGED <<req, load>>
  PROVE  TypeOK'
<1>1. /\ tasks[t] \in Cleanups /\ tasks[t].first <= tasks[t].next /\ tasks[t].next <= tasks[t].last
      /\ tasks[t].last <= Len(procs) /\ DOMAIN procs = 1 .. Len(procs) /\ Len(procs) \in Nat
  BY SeqElement, LenProperties DEF TypeOK
<1> DEFINE q == [tasks[t] EXCEPT !.at = at]
<1>2. q \in Cleanups /\ q.first = tasks[t].first /\ q.next = tasks[t].next /\ q.last = tasks[t].last
  BY <1>1 DEF Cleanups
<1>3. tasks' = [tasks EXCEPT ![t] = q]
  OBVIOUS
<1>4. tasks[t].next \in DOMAIN procs
  BY <1>1, ToolsAssumption DEF Cleanups
<1>5. [state |-> s, late |-> 0, left |-> 0] \in Processes
  BY ToolsAssumption DEF Processes
<1>6. \/ procs' = procs
      \/ \E p \in DOMAIN procs, r \in Processes : procs' = [procs EXCEPT ![p] = r]
  BY <1>4, <1>5 DEF Become
<1> HIDE DEF q
<1> QED BY <1>1, <1>2, <1>3, <1>6, TaskStep

\* Time keeps the types.
LEMMA TickStep ==
  ASSUME TypeOK, Tick
  PROVE  /\ TypeOK'
         /\ DOMAIN procs' = DOMAIN procs /\ DOMAIN tasks' = DOMAIN tasks
<1>1. /\ procs \in [1 .. Len(procs) -> Processes] /\ Len(procs) \in Nat /\ DOMAIN procs = 1 .. Len(procs)
      /\ tasks \in [1 .. Len(tasks) -> Cleanups] /\ Len(tasks) \in Nat /\ DOMAIN tasks = 1 .. Len(tasks)
  BY LenProperties DEF TypeOK
<1>2. procs' \in [1 .. Len(procs) -> Processes]
  <2> SUFFICES ASSUME NEW p \in 1 .. Len(procs) PROVE procs'[p] \in Processes
    BY <1>1 DEF Tick
  <2>1. procs[p] \in Processes
    BY <1>1
  <2>2. CASE procs[p].state = "starting" /\ procs[p].late <= Grace
    <3>1. procs'[p] = [procs[p] EXCEPT !.late = @ + 1]
      BY <1>1, <2>2 DEF Tick
    <3>2. procs[p].late + 1 \in 0 .. Grace + 1
      BY <2>1, <2>2, ToolsAssumption DEF Processes
    <3> QED BY <2>1, <3>1, <3>2 DEF Processes
  <2>3. CASE procs[p].state = "burning" /\ procs[p].left > 0
    <3>1. procs'[p] = [procs[p] EXCEPT !.left = @ - 1]
      BY <1>1, <2>3 DEF Tick
    <3>2. procs[p].left - 1 \in 0 .. MaxDuration
      BY <2>1, <2>3, ToolsAssumption DEF Processes
    <3> QED BY <2>1, <3>1, <3>2 DEF Processes
  <2>4. CASE ~(procs[p].state = "starting" /\ procs[p].late <= Grace) /\ ~(procs[p].state = "burning" /\ procs[p].left > 0)
    <3>1. procs'[p] = procs[p]
      BY <1>1, <2>4 DEF Tick
    <3> QED BY <2>1, <3>1
  <2> QED BY <2>2, <2>3, <2>4
<1>3. /\ tasks' \in [1 .. Len(tasks) -> Cleanups]
      /\ \A t \in 1 .. Len(tasks) : /\ tasks'[t].first = tasks[t].first /\ tasks'[t].next = tasks[t].next
                                  /\ tasks'[t].last = tasks[t].last
  <2> SUFFICES ASSUME NEW t \in 1 .. Len(tasks)
               PROVE  /\ tasks'[t] \in Cleanups
                      /\ tasks'[t].first = tasks[t].first /\ tasks'[t].next = tasks[t].next
                      /\ tasks'[t].last = tasks[t].last
    BY <1>1 DEF Tick
  <2>1. tasks[t] \in Cleanups
    BY <1>1
  <2>2. CASE tasks[t].at = "sleep" /\ tasks[t].age < tasks[t].until
    <3>1. tasks'[t] = [tasks[t] EXCEPT !.age = @ + 1]
      BY <1>1, <2>2 DEF Tick
    <3>2. tasks[t].age + 1 \in 0 .. MaxDuration + Grace
      BY <2>1, <2>2, ToolsAssumption DEF Cleanups
    <3> QED BY <2>1, <3>1, <3>2 DEF Cleanups
  <2>3. CASE ~(tasks[t].at = "sleep" /\ tasks[t].age < tasks[t].until)
    <3>1. tasks'[t] = tasks[t]
      BY <1>1, <2>3 DEF Tick
    <3> QED BY <2>1, <3>1
  <2> QED BY <2>2, <2>3
<1>4. procs' \in Seq(Processes) /\ Len(procs') = Len(procs) /\ tasks' \in Seq(Cleanups) /\ Len(tasks') = Len(tasks)
  BY <1>1, <1>2, <1>3, SequenceOf
<1>5. DOMAIN procs' = DOMAIN procs /\ DOMAIN tasks' = DOMAIN tasks
  BY <1>1, <1>2, <1>3
<1>6. \A c \in Clients : At(c, "command")' => req'[c].todo # <<>>
  BY DEF TypeOK, At, Tick
<1>7. \A t \in DOMAIN tasks' : /\ tasks'[t].first <= tasks'[t].next /\ tasks'[t].next <= tasks'[t].last
                              /\ tasks'[t].last <= Len(procs')
  BY <1>1, <1>3, <1>4, <1>5 DEF TypeOK
<1> QED BY <1>4, <1>5, <1>6, <1>7 DEF TypeOK, Tick

\* A spike keeps the types.
LEMMA SpikeType ==
  ASSUME TypeOK, NEW c \in Clients, Spike(c)
  PROVE  TypeOK'
<1>1. PICK n \in Nat, r \in Requests :
        /\ Len(procs) + n <= MaxProcs
        /\ procs' \in Seq(Processes) /\ Len(procs') = Len(procs) + n
        /\ \A p \in DOMAIN procs' : procs'[p] = IF p <= Len(procs) THEN procs[p] ELSE Proc(r)
        /\ active' = active \cup (Len(procs) + 1 .. Len(procs) + n)
        /\ \/ tasks' = tasks
           \/ n >= 1 /\ tasks' = Append(tasks, Cleanup(r, Len(procs) + 1, Len(procs) + n))
  BY SpikeStep
<1>2. /\ procs \in Seq(Processes) /\ Len(procs) \in Nat /\ DOMAIN procs = 1 .. Len(procs)
      /\ tasks \in Seq(Cleanups) /\ Len(tasks) \in Nat /\ DOMAIN tasks = 1 .. Len(tasks)
      /\ DOMAIN procs' = 1 .. Len(procs) + n
  BY <1>1, LenProperties DEF TypeOK
<1> DEFINE new == Cleanup(r, Len(procs) + 1, Len(procs) + n)
<1>3. ASSUME n >= 1 PROVE /\ new \in Cleanups /\ new.first <= new.next
                            /\ new.next <= new.last /\ new.last <= Len(procs')
  <2>1. Len(procs) + 1 \in 1 .. MaxProcs /\ Len(procs) + n \in 1 .. MaxProcs
    BY <1>1, <1>2, <1>3, ToolsAssumption
  <2>2. r.duration + Grace \in 1 .. MaxDuration + Grace /\ 0 \in 0 .. MaxDuration + Grace
    BY ToolsAssumption DEF Requests
  <2> QED BY <1>1, <1>2, <1>3, <2>1, <2>2 DEF Cleanup, Cleanups
<1> HIDE DEF new
<1>4. /\ tasks' \in Seq(Cleanups) /\ DOMAIN tasks \subseteq DOMAIN tasks'
      /\ \A t \in DOMAIN tasks' : /\ tasks'[t].first <= tasks'[t].next /\ tasks'[t].next <= tasks'[t].last
                                /\ tasks'[t].last <= Len(procs')
  <2>1. CASE tasks' = tasks
    <3>1. \A t \in DOMAIN tasks : tasks[t] \in Cleanups
      BY SeqElement DEF TypeOK
    <3> QED BY <1>1, <1>2, <2>1, <3>1 DEF TypeOK, Cleanups
  <2>2. CASE n >= 1 /\ tasks' = Append(tasks, new)
    <3>1. new \in Cleanups
      BY <1>3, <2>2
    <3>2. /\ tasks' \in Seq(Cleanups) /\ Len(tasks') = Len(tasks) + 1 /\ DOMAIN tasks' = 1 .. Len(tasks) + 1
          /\ \A t \in 1 .. Len(tasks) : tasks'[t] = tasks[t] /\ tasks'[t] \in Cleanups
          /\ tasks'[Len(tasks) + 1] = new
      BY <1>2, <2>2, <3>1, AppendProperties, LenProperties
    <3>3. ASSUME NEW t \in 1 .. Len(tasks)
          PROVE  /\ tasks'[t].first <= tasks'[t].next /\ tasks'[t].next <= tasks'[t].last
                 /\ tasks'[t].last <= Len(procs')
      <4>1. tasks'[t] = tasks[t] /\ t \in DOMAIN tasks /\ tasks[t].last \in Nat
        BY <1>2, <3>2, ToolsAssumption DEF Cleanups
      <4>2. tasks[t].first <= tasks[t].next /\ tasks[t].next <= tasks[t].last /\ tasks[t].last <= Len(procs)
        BY <4>1 DEF TypeOK
      <4> QED BY <1>1, <1>2, <4>1, <4>2
    <3>4. /\ new.first <= new.next /\ new.next <= new.last /\ new.last <= Len(procs')
      BY <1>3, <2>2
    <3> QED BY <1>2, <3>2, <3>3, <3>4
  <2> QED BY <1>1, <2>1, <2>2 DEF new
<1>5. /\ req' \in [Clients -> Pending \cup {None}]
      /\ \A d \in Clients : At(d, "command")' => req'[d].todo # <<>>
  BY DEF TypeOK, Spike, Respond, At
<1>6. active' \subseteq DOMAIN procs'
  BY <1>1, <1>2 DEF TypeOK
<1>7. Len(procs') <= MaxProcs /\ loop' \in DOMAIN tasks' \cup {None} /\ load' \in DOMAIN Workloads
  BY <1>1, <1>4 DEF TypeOK, Spike
<1> QED BY <1>1, <1>4, <1>5, <1>6, <1>7 DEF TypeOK

\* What a request becomes on its way to its handler, and what a tool awaits.
LEMMA WaitingType ==
  ASSUME NEW r \in Requests
  PROVE  /\ Waiting(r, "delay") \in Pending /\ Waiting(r, "delay").at = "delay"
         /\ Forwarded(r) \in Pending \cup {None}
         /\ Forwarded(r) # None => Forwarded(r).at = "handler"
<1>1. <<>> \in Seq({"ping", "dns", "traceroute", "curl", "sleep", "fib", "body"})
  OBVIOUS
<1> QED BY <1>1 DEF Waiting, Forwarded, Pending

LEMMA CommandsType ==
  ASSUME NEW r \in Requests
  PROVE  Commands(r) \in Seq({"ping", "dns", "traceroute", "curl", "sleep", "fib", "body"})
<1> DEFINE S == {"ping", "dns", "traceroute", "curl", "sleep", "fib", "body"}
<1>1. <<"ping", "dns", "traceroute">> \in Seq(S) /\ <<>> \in Seq(S)
  OBVIOUS
<1>2. ASSUME NEW tool \in S PROVE <<tool>> \in Seq(S)
  BY <1>2
<1>3. CASE r.tool = "network_scan"
  BY <1>1, <1>3 DEF Commands
<1>4. CASE r.tool \in {"ping", "dns", "curl", "sleep", "fib"}
  BY <1>2, <1>4 DEF Commands
<1>5. CASE r.tool = "echo_body"
  BY <1>1, <1>2, <1>5 DEF Commands
<1>6. CASE r.tool \notin {"network_scan", "echo_body", "ping", "dns", "curl", "sleep", "fib"}
  BY <1>1, <1>6 DEF Commands
<1> QED BY <1>3, <1>4, <1>5, <1>6

\* The next command of a request, or its answer, keeps the types.
LEMMA NextCommandType ==
  ASSUME TypeOK, NEW c \in Clients, At(c, "command"), NextCommand(c) \/ Respond(c),
         UNCHANGED <<spikes, load>>
  PROVE  TypeOK'
<1>1. CASE Respond(c)
  BY <1>1, RequestStep DEF Respond
<1>2. CASE NextCommand(c) /\ ~Respond(c)
  <2> DEFINE r == [req[c] EXCEPT !.todo = Tail(@)]
  <2>1. /\ req[c] \in Pending /\ req[c].todo # <<>> /\ Len(req[c].todo) # 1
        /\ req' = [req EXCEPT ![c] = r]
    BY <1>2, PendingReq DEF NextCommand, TypeOK
  <2>2. req[c].todo \in Seq({"ping", "dns", "traceroute", "curl", "sleep", "fib", "body"})
    BY <2>1 DEF Pending
  <2>3. /\ Tail(req[c].todo) \in Seq({"ping", "dns", "traceroute", "curl", "sleep", "fib", "body"})
        /\ Tail(req[c].todo) # <<>>
    BY <2>1, <2>2, LongTail
  <2>4. r \in Pending /\ r.todo # <<>>
    BY <2>1, <2>3 DEF Pending
  <2> QED BY <2>1, <2>4, RequestStep
<1> QED BY <1>1, <1>2

\* Every step keeps the types.
LEMMA NextType ==
  ASSUME TypeOK, [Next]_vars
  PROVE  TypeOK'
<1>1. ASSUME NEW c \in Clients, Arrive(c) PROVE TypeOK'
  <2>1. PICK r \in Work.requests :
          req' = [req EXCEPT ![c] = IF Delayed(r) THEN Waiting(r, "delay") ELSE Forwarded(r)]
    BY <1>1 DEF Arrive
  <2>2. r \in Requests
    BY <2>1, WorkType DEF TypeOK
  <2>3. UNCHANGED <<spikes, load>>
    BY <1>1 DEF Arrive
  <2> QED BY <2>1, <2>2, <2>3, WaitingType, RequestStep
<1>2. ASSUME NEW c \in Clients, DelayEnds(c) PROVE TypeOK'
  <2>1. req[c].request \in Requests
    BY <1>2, PendingReq DEF DelayEnds
  <2>2. req' = [req EXCEPT ![c] = Forwarded(req[c].request)] /\ UNCHANGED <<spikes, load>>
    BY <1>2 DEF DelayEnds
  <2> QED BY <2>1, <2>2, WaitingType, RequestStep
<1>3. ASSUME NEW c \in Clients, Refuse(c) PROVE TypeOK'
  BY <1>3, RequestStep DEF Refuse, Respond
<1>4. ASSUME NEW c \in Clients, Handle(c) PROVE TypeOK'
  <2> DEFINE commands == Commands(req[c].request)
             r == [req[c] EXCEPT !.at = "command", !.todo = commands]
  <2>1. req[c] \in Pending /\ req[c].request \in Requests
    BY <1>4, PendingReq DEF Handle
  <2>2. commands \in Seq({"ping", "dns", "traceroute", "curl", "sleep", "fib", "body"})
    BY <2>1, CommandsType
  <2>3. UNCHANGED <<spikes, load>> /\ (IF commands = <<>> THEN Respond(c) ELSE req' = [req EXCEPT ![c] = r])
    BY <1>4 DEF Handle
  <2>4. CASE commands = <<>>
    BY <2>3, <2>4, RequestStep DEF Respond
  <2>5. CASE commands # <<>>
    <3>1. r \in Pending /\ r.todo = commands
      BY <2>1, <2>2 DEF Pending
    <3> HIDE DEF r
    <3> QED BY <2>3, <2>5, <3>1, RequestStep
  <2> QED BY <2>4, <2>5
<1>5. ASSUME NEW c \in Clients, Spike(c) PROVE TypeOK'
  BY <1>5, SpikeType
<1>6. ASSUME NEW c \in Clients, CommandEnds(c) \/ CommandFails(c) PROVE TypeOK'
  <2>1. At(c, "command") /\ (NextCommand(c) \/ Respond(c)) /\ UNCHANGED <<spikes, load>>
    BY <1>6 DEF CommandEnds, CommandFails
  <2> QED BY <2>1, NextCommandType
<1>7. ASSUME NEW p \in DOMAIN procs, Process(p) PROVE TypeOK'
  <2>1. procs[p] \in Processes
    BY SeqElement DEF TypeOK
  <2>2. CASE Burn(p)
    <3>1. [procs[p] EXCEPT !.state = "burning"] \in Processes
      BY <2>1 DEF Processes
    <3>2. procs' = [procs EXCEPT ![p] = [procs[p] EXCEPT !.state = "burning"]]
      BY <2>2 DEF Burn
    <3> QED BY <2>2, <3>1, <3>2, ProcessStep DEF Burn
  <2>3. CASE BurnEnds(p) \/ Dies(p)
    <3>1. [state |-> "dead", late |-> 0, left |-> 0] \in Processes
      BY ToolsAssumption DEF Processes
    <3> QED BY <2>3, <3>1, ProcessStep DEF BurnEnds, Dies, Become
  <2> QED BY <1>7, <2>2, <2>3 DEF Process
<1>8. ASSUME NEW t \in DOMAIN tasks, Task(t) PROVE TypeOK'
  <2>1. loop \in DOMAIN tasks \cup {None}
    BY DEF TypeOK
  <2>2. CASE Wake(t)
    BY <2>2, PlaceStep DEF Wake
  <2>3. CASE Close(t) /\ UNCHANGED <<req, procs, load>>
    BY <2>3, CloseStep
  <2>4. CASE Check(t) /\ ~UNCHANGED procs
    BY <2>1, <2>4, PlaceStep DEF Check
  <2>5. CASE Join(t) /\ ~UNCHANGED procs
    BY <2>1, <2>5, PlaceStep DEF Join
  <2>6. CASE CloseKilled(t) /\ ~Close(t)
    BY <2>1, <2>6, PlaceStep DEF CloseKilled
  <2>7. CASE Check(t) /\ UNCHANGED procs /\ ~Close(t)
    BY <2>1, <2>7, PlaceStep DEF Check
  <2>8. CASE Join(t) /\ UNCHANGED procs /\ ~Close(t)
    BY <2>1, <2>8, PlaceStep DEF Join
  <2> QED BY <1>8, <2>2, <2>3, <2>4, <2>5, <2>6, <2>7, <2>8 DEF Task, Check, Join, CloseKilled
<1>9. CASE Tick
  BY <1>9, TickStep
<1>10. CASE UNCHANGED vars
  BY <1>10 DEF TypeOK, vars, At
<1> QED BY <1>1, <1>2, <1>3, <1>4, <1>5, <1>6, <1>7, <1>8, <1>9, <1>10 DEF Next, Request

\* The initial states have them.
LEMMA InitType ==
  ASSUME Init
  PROVE  TypeOK
<1>1. procs = <<>> /\ tasks = <<>> /\ <<>> \in Seq(Processes) /\ <<>> \in Seq(Cleanups) /\ Len(procs) = 0
  BY DEF Init
<1>2. DOMAIN tasks = {} /\ active = {} /\ loop = None
  BY <1>1 DEF Init
<1> QED BY <1>1, <1>2, ToolsAssumption DEF Init, TypeOK, At

\* The state keeps its types in every behaviour.
THEOREM TypeCorrect == Spec => []TypeOK
<1>1. Init => TypeOK
  BY InitType
<1>2. TypeOK /\ [Next]_vars => TypeOK'
  BY NextType
<1> QED BY <1>1, <1>2, PTL DEF Spec

-----------------------------------------------------------------------------
(* The processes of a spike, and the tasks that clean up after them.        *)

\* A process that was cut, or is over, has nothing left to burn.
Cut(q) == q.state \in {"terminated", "killed", "dead"} => q.left = 0

\* The processes that task t has passed are dead; ...
PassedDead(t) == \A p \in tasks[t].first .. tasks[t].next - 1 : ~Alive(p)

\* ... it has left its sleep only when that was over; and a process it still
\* has to go over burns no longer than the sleep goes on, but for the lateness
\* of its beginning, which the grace is for.
InTime(t) ==
  /\ tasks[t].age <= tasks[t].until
  /\ tasks[t].at # "sleep" => tasks[t].age = tasks[t].until
  /\ \A p \in tasks[t].first .. tasks[t].last :
       \/ procs[p].late > Grace
       \/ procs[p].left = 0
       \/ procs[p].left + tasks[t].age + Grace <= tasks[t].until + procs[p].late

ToolInv ==
  /\ TypeOK /\ LiveAreListed
  /\ \A p \in DOMAIN procs : Cut(procs[p])
  /\ \A t \in DOMAIN tasks : PassedDead(t) /\ InTime(t)

\* What a step other than the passing of time makes of a process a: b; ...
Goes(a, b) ==
  /\ a.state = "dead" => b.state = "dead"
  /\ \/ b = a
     \/ b.state \in {"terminated", "killed", "dead"} /\ b.left = 0
     \/ b.state = "burning" /\ b.late = a.late /\ b.left = a.left

\* ... and of the cleanup task t.
Moves(t) ==
  /\ tasks'[t].first = tasks[t].first /\ tasks'[t].last = tasks[t].last
  /\ tasks'[t].age = tasks[t].age /\ tasks'[t].until = tasks[t].until
  /\ tasks'[t].at # "sleep" => tasks[t].age = tasks[t].until
  /\ tasks'[t].next = tasks[t].next \/ (tasks'[t].next = tasks[t].next + 1 /\ ~Alive(tasks[t].next))

\* What the types say of a task and of its processes.
LEMMA TaskFacts ==
  ASSUME TypeOK, NEW t \in DOMAIN tasks
  PROVE  /\ tasks[t] \in Cleanups
         /\ tasks[t].first \in Nat \ {0} /\ tasks[t].next \in Nat /\ tasks[t].last \in Nat
         /\ tasks[t].age \in Nat /\ tasks[t].until \in Nat
         /\ tasks[t].first <= tasks[t].next /\ tasks[t].next <= tasks[t].last
         /\ \A p \in tasks[t].first .. tasks[t].last : p \in DOMAIN procs
         /\ tasks[t].next \in DOMAIN procs
<1>1. /\ tasks[t] \in Cleanups /\ tasks[t].first <= tasks[t].next /\ tasks[t].next <= tasks[t].last
      /\ tasks[t].last <= Len(procs) /\ Len(procs) \in Nat /\ DOMAIN procs = 1 .. Len(procs)
  BY SeqElement, LenProperties DEF TypeOK
<1>2. /\ tasks[t].first \in Nat \ {0} /\ tasks[t].next \in Nat /\ tasks[t].last \in Nat
      /\ tasks[t].age \in Nat /\ tasks[t].until \in Nat
  BY <1>1, ToolsAssumption DEF Cleanups
<1> QED BY <1>1, <1>2

LEMMA ProcFacts ==
  ASSUME TypeOK, NEW p \in DOMAIN procs
  PROVE  procs[p] \in Processes /\ procs[p].late \in Nat /\ procs[p].left \in Nat
<1>1. procs[p] \in Processes
  BY SeqElement DEF TypeOK
<1> QED BY <1>1 DEF Processes

\* The steps other than spikes and time.
LEMMA StepKeeps ==
  ASSUME ToolInv, TypeOK', LiveAreListed',
         DOMAIN procs' = DOMAIN procs, \A p \in DOMAIN procs : Goes(procs[p], procs'[p]),
         DOMAIN tasks' = DOMAIN tasks, \A t \in DOMAIN tasks : Moves(t)
  PROVE  ToolInv'
<1>1. ASSUME NEW p \in DOMAIN procs' PROVE Cut(procs'[p])
  BY <1>1 DEF ToolInv, Cut, Goes
<1>2. ASSUME NEW t \in DOMAIN tasks' PROVE PassedDead(t)'
  <2>1. ASSUME NEW p \in tasks'[t].first .. tasks'[t].next - 1 PROVE ~Alive(p)'
    <3>1. /\ tasks[t].first \in Nat /\ tasks[t].next \in Nat /\ tasks[t].last \in Nat
          /\ tasks[t].next <= tasks[t].last
          /\ \A q \in tasks[t].first .. tasks[t].last : q \in DOMAIN procs
      BY <1>2, TaskFacts DEF ToolInv
    <3>2. p \in tasks[t].first .. tasks[t].last
      BY <1>2, <2>1, <3>1 DEF Moves
    <3>3. ~Alive(p)
      <4>1. CASE p \in tasks[t].first .. tasks[t].next - 1
        BY <1>2, <4>1 DEF ToolInv, PassedDead
      <4>2. CASE p \notin tasks[t].first .. tasks[t].next - 1
        <5>1. p = tasks[t].next /\ tasks'[t].next # tasks[t].next
          BY <1>2, <2>1, <3>1, <3>2, <4>2 DEF Moves
        <5> QED BY <1>2, <5>1 DEF Moves
      <4> QED BY <4>1, <4>2
    <3> QED BY <3>1, <3>2, <3>3 DEF Goes, Alive
  <2> QED BY <2>1 DEF PassedDead
<1>3. ASSUME NEW t \in DOMAIN tasks' PROVE InTime(t)'
  <2>1. /\ tasks'[t].age <= tasks'[t].until
        /\ tasks'[t].at # "sleep" => tasks'[t].age = tasks'[t].until
    BY <1>3 DEF Moves, ToolInv, InTime
  <2>2. ASSUME NEW p \in tasks'[t].first .. tasks'[t].last
        PROVE  \/ procs'[p].late > Grace
               \/ procs'[p].left = 0
               \/ procs'[p].left + tasks'[t].age + Grace <= tasks'[t].until + procs'[p].late
    <3>1. p \in tasks[t].first .. tasks[t].last
      BY <1>3, <2>2 DEF Moves
    <3>2. p \in DOMAIN procs
      BY <1>3, <3>1, TaskFacts DEF ToolInv
    <3>3. \/ procs[p].late > Grace
          \/ procs[p].left = 0
          \/ procs[p].left + tasks[t].age + Grace <= tasks[t].until + procs[p].late
      BY <1>3, <3>1 DEF ToolInv, InTime
    <3>4. procs'[p].left = 0 \/ (procs'[p].late = procs[p].late /\ procs'[p].left = procs[p].left)
      BY <3>2 DEF Goes
    <3>5. tasks'[t].age = tasks[t].age /\ tasks'[t].until = tasks[t].until
      BY <1>3 DEF Moves
    <3> QED BY <3>3, <3>4, <3>5
  <2> QED BY <2>1, <2>2 DEF InTime
<1> QED BY <1>1, <1>2, <1>3 DEF ToolInv

\* A step that leaves the processes and their tasks alone.
LEMMA RequestKeeps ==
  ASSUME ToolInv, TypeOK', UNCHANGED <<procs, active, tasks>>
  PROVE  ToolInv'
<1>1. LiveAreListed'
  BY DEF ToolInv, LiveAreListed, Alive
<1>2. \A p \in DOMAIN procs : Goes(procs[p], procs'[p])
  BY DEF Goes
<1>3. \A t \in DOMAIN tasks : Moves(t)
  BY DEF Moves, ToolInv, InTime
<1> QED BY <1>1, <1>2, <1>3, StepKeeps

\* A step of a process.
LEMMA ProcessKeeps ==
  ASSUME ToolInv, TypeOK', NEW p \in DOMAIN procs, Process(p)
  PROVE  ToolInv'
<1>1. procs[p] \in Processes
  BY ProcFacts DEF ToolInv
<1>2. UNCHANGED <<active, tasks>>
  BY DEF Process, Burn, BurnEnds, Dies
<1>3. PICK q : /\ procs' = [procs EXCEPT ![p] = q]
               /\ Goes(procs[p], q)
               /\ procs[p].state # "dead"
  <2>1. CASE Burn(p)
    <3> DEFINE q == [procs[p] EXCEPT !.state = "burning"]
    <3>1. procs' = [procs EXCEPT ![p] = q] /\ procs[p].state = "starting"
      BY <2>1 DEF Burn
    <3>2. Goes(procs[p], q)
      BY <1>1, <3>1 DEF Goes, Processes
    <3> QED BY <3>1, <3>2
  <2>2. CASE BurnEnds(p) \/ Dies(p)
    <3> DEFINE q == [state |-> "dead", late |-> 0, left |-> 0]
    <3>1. procs' = [procs EXCEPT ![p] = q] /\ procs[p].state # "dead"
      BY <2>2 DEF BurnEnds, Dies, Become
    <3>2. Goes(procs[p], q)
      BY DEF Goes
    <3> QED BY <3>1, <3>2
  <2> QED BY <2>1, <2>2 DEF Process
<1>4. DOMAIN procs' = DOMAIN procs /\ \A i \in DOMAIN procs : procs'[i] = IF i = p THEN q ELSE procs[i]
  BY <1>3 DEF ToolInv, TypeOK
<1>5. \A i \in DOMAIN procs : Goes(procs[i], procs'[i])
  BY <1>3, <1>4 DEF Goes
<1>6. LiveAreListed'
  BY <1>2, <1>3, <1>4 DEF ToolInv, LiveAreListed, Alive
<1>7. \A t \in DOMAIN tasks : Moves(t)
  BY <1>2 DEF Moves, ToolInv, InTime
<1> QED BY <1>2, <1>4, <1>5, <1>6, <1>7, StepKeeps

\* A task goes to another place, and may signal the process it has got to.
LEMMA PlaceKeeps ==
  ASSUME ToolInv, TypeOK', NEW t \in DOMAIN tasks,
         NEW at, tasks' = [tasks EXCEPT ![t].at = at], tasks[t].age = tasks[t].until,
         NEW s \in {"terminated", "killed"},
         procs' = procs \/ (Alive(tasks[t].next) /\ Become(tasks[t].next, s)),
         active' = active
  PROVE  ToolInv'
<1>1. tasks[t] \in Cleanups /\ tasks[t].next \in DOMAIN procs
  BY TaskFacts DEF ToolInv
<1>2. /\ DOMAIN tasks' = DOMAIN tasks
      /\ \A u \in DOMAIN tasks : tasks'[u] = IF u = t THEN [tasks[t] EXCEPT !.at = at] ELSE tasks[u]
  BY DEF ToolInv, TypeOK
<1>3. \A u \in DOMAIN tasks : Moves(u)
  <2>1. Moves(t)
    BY <1>1, <1>2 DEF Moves, Cleanups
  <2>2. \A u \in DOMAIN tasks : u # t => Moves(u)
    BY <1>2 DEF Moves, ToolInv, InTime
  <2> QED BY <2>1, <2>2
<1>4. /\ DOMAIN procs' = DOMAIN procs
      /\ \A p \in DOMAIN procs : Goes(procs[p], procs'[p]) /\ (~Alive(p) => procs'[p] = procs[p])
  <2>1. CASE procs' = procs
    BY <2>1 DEF Goes
  <2>2. CASE Alive(tasks[t].next) /\ Become(tasks[t].next, s)
    <3> DEFINE q == [state |-> s, late |-> 0, left |-> 0]
    <3>1. /\ DOMAIN procs' = DOMAIN procs
          /\ \A p \in DOMAIN procs : procs'[p] = IF p = tasks[t].next THEN q ELSE procs[p]
      BY <1>1, <2>2 DEF ToolInv, TypeOK, Become
    <3>2. Goes(procs[tasks[t].next], q)
      BY <2>2 DEF Goes, Alive
    <3> QED BY <2>2, <3>1, <3>2 DEF Goes, Alive
  <2> QED BY <2>1, <2>2
<1>5. LiveAreListed'
  BY <1>4 DEF ToolInv, LiveAreListed, Alive
<1> QED BY <1>2, <1>3, <1>4, <1>5, StepKeeps

\* The close() of a dead process; after the last one, all of the task's are.
LEMMA CloseKeeps ==
  ASSUME ToolInv, TypeOK', NEW t \in DOMAIN tasks, Close(t), ~Alive(tasks[t].next),
         tasks[t].age = tasks[t].until, UNCHANGED procs
  PROVE  ToolInv'
<1>1. /\ tasks[t] \in Cleanups /\ tasks[t].first \in Nat /\ tasks[t].next \in Nat /\ tasks[t].last \in Nat
      /\ tasks[t].first <= tasks[t].next /\ tasks[t].next <= tasks[t].last
  BY TaskFacts DEF ToolInv
<1>2. \A p \in DOMAIN procs : Goes(procs[p], procs'[p])
  BY DEF Goes
<1>3. PICK q : /\ tasks' = [tasks EXCEPT ![t] = q]
               /\ q.first = tasks[t].first /\ q.last = tasks[t].last
               /\ q.age = tasks[t].age /\ q.until = tasks[t].until
               /\ q.next \in {tasks[t].next, tasks[t].next + 1}
  <2>1. CASE tasks[t].next = tasks[t].last
    <3> DEFINE q == [tasks[t] EXCEPT !.at = "done"]
    <3>1. tasks' = [tasks EXCEPT ![t] = q]
      BY <2>1 DEF Close
    <3>2. /\ q.first = tasks[t].first /\ q.last = tasks[t].last
          /\ q.age = tasks[t].age /\ q.until = tasks[t].until /\ q.next = tasks[t].next
      BY <1>1 DEF Cleanups
    <3> QED BY <3>1, <3>2
  <2>2. CASE tasks[t].next # tasks[t].last
    <3> DEFINE q == [tasks[t] EXCEPT !.at = "check", !.next = @ + 1]
    <3>1. tasks' = [tasks EXCEPT ![t] = q]
      BY <2>2 DEF Close
    <3>2. /\ q.first = tasks[t].first /\ q.last = tasks[t].last
          /\ q.age = tasks[t].age /\ q.until = tasks[t].until /\ q.next = tasks[t].next + 1
      BY <1>1 DEF Cleanups
    <3> QED BY <3>1, <3>2
  <2> QED BY <2>1, <2>2
<1>4. /\ DOMAIN tasks' = DOMAIN tasks
      /\ \A u \in DOMAIN tasks : tasks'[u] = IF u = t THEN q ELSE tasks[u]
  BY <1>3 DEF ToolInv, TypeOK
<1>5. \A u \in DOMAIN tasks : Moves(u)
  <2>1. Moves(t)
    BY <1>3, <1>4 DEF Moves
  <2>2. \A u \in DOMAIN tasks : u # t => Moves(u)
    BY <1>4 DEF Moves, ToolInv, InTime
  <2> QED BY <2>1, <2>2
<1>6. LiveAreListed'
  <2>1. CASE tasks[t].next = tasks[t].last
    <3>1. \A p \in tasks[t].first .. tasks[t].last : ~Alive(p)
      <4>1. \A p \in tasks[t].first .. tasks[t].last : p \in tasks[t].first .. tasks[t].next - 1 \/ p = tasks[t].next
        BY <1>1, <2>1
      <4> QED BY <4>1 DEF ToolInv, PassedDead
    <3>2. active' = active \ (tasks[t].first .. tasks[t].last)
      BY <2>1 DEF Close
    <3> QED BY <3>1, <3>2 DEF ToolInv, LiveAreListed, Alive
  <2>2. CASE tasks[t].next # tasks[t].last
    BY <2>2 DEF Close, ToolInv, LiveAreListed, Alive
  <2> QED BY <2>1, <2>2
<1> QED BY <1>2, <1>4, <1>5, <1>6, StepKeeps

\* A step of a task.
LEMMA TaskKeeps ==
  ASSUME ToolInv, TypeOK', NEW t \in DOMAIN tasks, Task(t)
  PROVE  ToolInv'
<1>1. tasks[t].age = tasks[t].until
  BY DEF Task, Wake, Check, Join, CloseKilled, ToolInv, InTime
<1>2. CASE Wake(t)
  BY <1>1, <1>2, PlaceKeeps DEF Wake
<1>3. CASE Close(t) /\ ~Alive(tasks[t].next) /\ UNCHANGED procs
  BY <1>1, <1>3, CloseKeeps
<1>4. CASE Check(t) /\ Alive(tasks[t].next)
  BY <1>1, <1>4, PlaceKeeps DEF Check
<1>5. CASE Join(t) /\ Alive(tasks[t].next)
  BY <1>1, <1>5, PlaceKeeps DEF Join
<1>6. CASE CloseKilled(t) /\ Alive(tasks[t].next)
  BY <1>1, <1>6, PlaceKeeps DEF CloseKilled
<1> QED BY <1>2, <1>3, <1>4, <1>5, <1>6 DEF Task, Check, Join, CloseKilled

\* The processes and the task of a spike.
LEMMA SpikeKeeps ==
  ASSUME ToolInv, TypeOK', NEW c \in Clients, Spike(c)
  PROVE  ToolInv'
<1>0. TypeOK
  BY DEF ToolInv
<1>1. PICK n \in Nat, r \in Requests :
        /\ procs' \in Seq(Processes) /\ Len(procs') = Len(procs) + n
        /\ \A p \in DOMAIN procs' : procs'[p] = IF p <= Len(procs) THEN procs[p] ELSE Proc(r)
        /\ active' = active \cup (Len(procs) + 1 .. Len(procs) + n)
        /\ \/ tasks' = tasks
           \/ n >= 1 /\ tasks' = Append(tasks, Cleanup(r, Len(procs) + 1, Len(procs) + n))
  BY <1>0, SpikeStep
<1>2. /\ Len(procs) \in Nat /\ DOMAIN procs = 1 .. Len(procs) /\ DOMAIN procs' = 1 .. Len(procs) + n
      /\ tasks \in Seq(Cleanups) /\ Len(tasks) \in Nat /\ DOMAIN tasks = 1 .. Len(tasks)
  BY <1>0, <1>1, LenProperties DEF TypeOK
<1>3. /\ \A p \in DOMAIN procs : p \in DOMAIN procs' /\ procs'[p] = procs[p]
      /\ \A p \in Len(procs) + 1 .. Len(procs) + n : p \in DOMAIN procs' /\ procs'[p] = Proc(r)
      /\ \A p \in DOMAIN procs' : p \in DOMAIN procs \/ p \in Len(procs) + 1 .. Len(procs) + n
  BY <1>1, <1>2
<1>4. LiveAreListed'
  BY <1>1, <1>3 DEF ToolInv, LiveAreListed, Alive
<1>5. ASSUME NEW p \in DOMAIN procs' PROVE Cut(procs'[p])
  BY <1>3, <1>5 DEF ToolInv, Cut, Proc
<1>6. ASSUME NEW t \in DOMAIN tasks, tasks'[t] = tasks[t] PROVE PassedDead(t)' /\ InTime(t)'
  <2>1. /\ \A p \in tasks[t].first .. tasks[t].last : procs'[p] = procs[p]
        /\ \A p \in tasks[t].first .. tasks[t].next - 1 : p \in tasks[t].first .. tasks[t].last
    BY <1>0, <1>3, TaskFacts
  <2>2. PassedDead(t)'
    BY <1>6, <2>1 DEF ToolInv, PassedDead, Alive
  <2>3. InTime(t)'
    BY <1>6, <2>1 DEF ToolInv, InTime
  <2> QED BY <2>2, <2>3
<1>7. CASE tasks' = tasks
  BY <1>4, <1>5, <1>6, <1>7 DEF ToolInv
<1>8. CASE n >= 1 /\ tasks' = Append(tasks, Cleanup(r, Len(procs) + 1, Len(procs) + n))
  <2> DEFINE new == Cleanup(r, Len(procs) + 1, Len(procs) + n)
  <2>1. /\ new.first = Len(procs) + 1 /\ new.last = Len(procs) + n /\ new.next = Len(procs) + 1
        /\ new.age = 0 /\ new.until = r.duration + Grace /\ new.at = "sleep"
    BY DEF Cleanup
  <2>2. /\ DOMAIN tasks' = 1 .. Len(tasks) + 1
        /\ \A t \in DOMAIN tasks : tasks'[t] = tasks[t]
        /\ tasks'[Len(tasks) + 1] = new
    <3>1. new \in Cleanups
      <4>1. tasks' \in Seq(Cleanups)
        BY DEF TypeOK
      <4>2. DOMAIN tasks' = 1 .. Len(tasks) + 1 /\ tasks'[Len(tasks) + 1] = new
        BY <1>2, <1>8
      <4>3. Len(tasks) + 1 \in DOMAIN tasks'
        BY <1>2, <4>2
      <4> QED BY <4>1, <4>2, <4>3, SeqElement
    <3> HIDE DEF new
    <3>2. tasks' = Append(tasks, new)
      BY <1>8 DEF new
    <3> QED BY <1>2, <3>1, <3>2, AppendProperties, LenProperties
  <2>3. ASSUME NEW t \in DOMAIN tasks', t = Len(tasks) + 1 PROVE PassedDead(t)' /\ InTime(t)'
    <3>1. r.duration \in Nat /\ Grace \in Nat
      BY ToolsAssumption DEF Requests
    <3>2. PassedDead(t)'
      BY <1>2, <2>1, <2>2, <2>3 DEF PassedDead
    <3>3. \A p \in Len(procs) + 1 .. Len(procs) + n : procs'[p].late = 0 /\ procs'[p].left = r.duration
      BY <1>3 DEF Proc
    <3>4. InTime(t)'
      BY <2>1, <2>2, <2>3, <3>1, <3>3 DEF InTime
    <3> QED BY <3>2, <3>4
  <2>4. \A t \in DOMAIN tasks' : t \in DOMAIN tasks \/ t = Len(tasks) + 1
    BY <1>2, <2>2
  <2> QED BY <1>4, <1>5, <1>6, <2>2, <2>3, <2>4 DEF ToolInv
<1> QED BY <1>1, <1>7, <1>8

\* What time makes of a process and of a task.
LEMMA TickProcess ==
  ASSUME TypeOK, Tick, NEW p \in DOMAIN procs
  PROVE  /\ procs'[p].state = procs[p].state
         /\ \/ /\ procs[p].state = "starting" /\ procs[p].late <= Grace
               /\ procs'[p].late = procs[p].late + 1 /\ procs'[p].left = procs[p].left
            \/ /\ procs[p].state = "burning" /\ procs[p].left > 0
               /\ procs'[p].late = procs[p].late /\ procs'[p].left = procs[p].left - 1
            \/ /\ ~(procs[p].state = "starting" /\ procs[p].late <= Grace)
               /\ ~(procs[p].state = "burning" /\ procs[p].left > 0)
               /\ procs'[p] = procs[p]
<1>1. procs[p] \in Processes
  BY ProcFacts
<1>2. CASE procs[p].state = "starting" /\ procs[p].late <= Grace
  <2>1. procs'[p] = [procs[p] EXCEPT !.late = @ + 1]
    BY <1>2 DEF Tick
  <2> QED BY <1>1, <1>2, <2>1 DEF Processes
<1>3. CASE procs[p].state = "burning" /\ procs[p].left > 0
  <2>1. procs'[p] = [procs[p] EXCEPT !.left = @ - 1]
    BY <1>3 DEF Tick
  <2> QED BY <1>1, <1>3, <2>1 DEF Processes
<1>4. CASE /\ ~(procs[p].state = "starting" /\ procs[p].late <= Grace)
           /\ ~(procs[p].state = "burning" /\ procs[p].left > 0)
  BY <1>4 DEF Tick
<1> QED BY <1>2, <1>3, <1>4

LEMMA TickTask ==
  ASSUME TypeOK, Tick, NEW t \in DOMAIN tasks
  PROVE  /\ tasks'[t].first = tasks[t].first /\ tasks'[t].next = tasks[t].next
         /\ tasks'[t].last = tasks[t].last /\ tasks'[t].until = tasks[t].until
         /\ tasks'[t].at = tasks[t].at
         /\ \/ tasks'[t].age = tasks[t].age
            \/ tasks[t].at = "sleep" /\ tasks[t].age < tasks[t].until /\ tasks'[t].age = tasks[t].age + 1
<1>1. tasks[t] \in Cleanups
  BY TaskFacts
<1>2. CASE tasks[t].at = "sleep" /\ tasks[t].age < tasks[t].until
  <2>1. tasks'[t] = [tasks[t] EXCEPT !.age = @ + 1]
    BY <1>2 DEF Tick
  <2> QED BY <1>1, <1>2, <2>1 DEF Cleanups
<1>3. CASE ~(tasks[t].at = "sleep" /\ tasks[t].age < tasks[t].until)
  BY <1>3 DEF Tick
<1> QED BY <1>2, <1>3

LEMMA TickKeeps ==
  ASSUME ToolInv, Tick
  PROVE  ToolInv'
<1>1. /\ TypeOK /\ TypeOK'
      /\ DOMAIN procs' = DOMAIN procs /\ DOMAIN tasks' = DOMAIN tasks /\ active' = active
  BY TickStep DEF ToolInv, Tick
<1>2. LiveAreListed'
  BY <1>1, TickProcess DEF ToolInv, LiveAreListed, Alive
<1>3. ASSUME NEW p \in DOMAIN procs' PROVE Cut(procs'[p])
  BY <1>1, <1>3, TickProcess DEF ToolInv, Cut
<1>4. ASSUME NEW t \in DOMAIN tasks' PROVE PassedDead(t)'
  <2>1. /\ \A p \in tasks[t].first .. tasks[t].last : p \in DOMAIN procs
        /\ \A p \in tasks[t].first .. tasks[t].next - 1 : p \in tasks[t].first .. tasks[t].last
    BY <1>1, <1>4, TaskFacts
  <2>2. tasks'[t].first = tasks[t].first /\ tasks'[t].next = tasks[t].next
    BY <1>1, <1>4, TickTask
  <2> QED BY <1>1, <1>4, <2>1, <2>2, TickProcess DEF ToolInv, PassedDead, Alive
<1>5. ASSUME NEW t \in DOMAIN tasks' PROVE InTime(t)'
  <2>1. /\ tasks[t].age \in Nat /\ tasks[t].until \in Nat /\ InTime(t) /\ Grace \in Nat
        /\ \A p \in tasks[t].first .. tasks[t].last : p \in DOMAIN procs
    BY <1>1, <1>5, TaskFacts, ToolsAssumption DEF ToolInv
  <2>2. /\ tasks'[t].first = tasks[t].first /\ tasks'[t].last = tasks[t].last
        /\ tasks'[t].until = tasks[t].until /\ tasks'[t].at = tasks[t].at
        /\ \/ tasks'[t].age = tasks[t].age
           \/ tasks[t].at = "sleep" /\ tasks[t].age < tasks[t].until /\ tasks'[t].age = tasks[t].age + 1
    BY <1>1, <1>5, TickTask
  <2>3. ASSUME NEW p \in tasks'[t].first .. tasks'[t].last
        PROVE  \/ procs'[p].late > Grace
               \/ procs'[p].left = 0
               \/ procs'[p].left + tasks'[t].age + Grace <= tasks'[t].until + procs'[p].late
    <3>1. /\ p \in DOMAIN procs
          /\ \/ procs[p].late > Grace
             \/ procs[p].left = 0
             \/ procs[p].left + tasks[t].age + Grace <= tasks[t].until + procs[p].late
      BY <2>1, <2>2, <2>3 DEF InTime
    <3>2. procs[p].late \in Nat /\ procs[p].left \in Nat /\ procs[p] \in Processes
      BY <1>1, <3>1, ProcFacts
    <3>3. CASE /\ procs[p].state = "starting" /\ procs[p].late <= Grace
               /\ procs'[p].late = procs[p].late + 1 /\ procs'[p].left = procs[p].left
      BY <2>1, <2>2, <3>1, <3>2, <3>3
    <3>4. CASE /\ procs[p].state = "burning" /\ procs[p].left > 0
               /\ procs'[p].late = procs[p].late /\ procs'[p].left = procs[p].left - 1
      BY <2>1, <2>2, <3>1, <3>2, <3>4
    <3>5. CASE /\ ~(procs[p].state = "starting" /\ procs[p].late <= Grace)
               /\ ~(procs[p].state = "burning" /\ procs[p].left > 0)
               /\ procs'[p] = procs[p]
      <4>1. procs[p].late > Grace \/ procs[p].left = 0
        BY <2>1, <3>1, <3>2, <3>5 DEF ToolInv, Cut, Processes
      <4> QED BY <3>5, <4>1
    <3> QED BY <1>1, <3>1, <3>3, <3>4, <3>5, TickProcess
  <2>4. /\ tasks'[t].age <= tasks'[t].until
        /\ tasks'[t].at # "sleep" => tasks'[t].age = tasks'[t].until
    BY <2>1, <2>2 DEF InTime
  <2> QED BY <2>3, <2>4 DEF InTime
<1> QED BY <1>1, <1>2, <1>3, <1>4, <1>5 DEF ToolInv

LEMMA ToolInvariance == Spec => []ToolInv
<1>1. Init => ToolInv
  <2> SUFFICES ASSUME Init PROVE ToolInv
    OBVIOUS
  <2>1. TypeOK
    BY InitType
  <2>2. DOMAIN procs = {} /\ DOMAIN tasks = {}
    BY DEF Init
  <2> QED BY <2>1, <2>2 DEF ToolInv, LiveAreListed
<1>2. ToolInv /\ [Next]_vars => ToolInv'
  <2> SUFFICES ASSUME ToolInv, [Next]_vars PROVE ToolInv'
    OBVIOUS
  <2>1. TypeOK'
    BY NextType DEF ToolInv
  <2>2. ASSUME NEW c \in Clients, \/ Arrive(c) \/ DelayEnds(c) \/ Refuse(c) \/ Handle(c)
                                  \/ CommandEnds(c) \/ CommandFails(c)
        PROVE  ToolInv'
    <3>1. UNCHANGED <<procs, active, tasks>>
      BY <2>2 DEF Arrive, DelayEnds, Refuse, Handle, CommandEnds, CommandFails, spikes
    <3> QED BY <2>1, <3>1, RequestKeeps
  <2>3. ASSUME NEW c \in Clients, Spike(c) PROVE ToolInv'
    BY <2>1, <2>3, SpikeKeeps
  <2>4. ASSUME NEW p \in DOMAIN procs, Process(p) PROVE ToolInv'
    BY <2>1, <2>4, ProcessKeeps
  <2>5. ASSUME NEW t \in DOMAIN tasks, Task(t) PROVE ToolInv'
    BY <2>1, <2>5, TaskKeeps
  <2>6. CASE Tick
    BY <2>6, TickKeeps
  <2>7. CASE UNCHANGED vars
    BY <2>1, <2>7, RequestKeeps DEF vars
  <2> QED BY <2>2, <2>3, <2>4, <2>5, <2>6, <2>7 DEF Next, Request
<1> QED BY <1>1, <1>2, PTL DEF Spec

\* "Track CPU spike processes": a process that runs is on the list, however its
\* spike or its cleanup ends, and however many of each there are.
THEOREM LiveListed == Spec => []LiveAreListed
<1>1. ToolInv => LiveAreListed
  BY DEF ToolInv
<1> QED BY <1>1, ToolInvariance, PTL

\* The cleanup cuts a burn short only when that began more than the grace
\* after its process was started, for any durations, and any grace.
THEOREM CutsLateOnly == Spec => CutOnlyLate
<1> DEFINE P == \A p \in DOMAIN procs :
                  (procs[p].state # "terminated" /\ procs'[p].state = "terminated") =>
                    procs[p].left = 0 \/ procs[p].late > Grace
<1>1. ASSUME ToolInv, [Next]_vars PROVE P
  <2> SUFFICES ASSUME NEW p \in DOMAIN procs,
                      procs[p].state # "terminated", procs'[p].state = "terminated"
               PROVE  procs[p].left = 0 \/ procs[p].late > Grace
    OBVIOUS
  <2>0. TypeOK
    BY <1>1 DEF ToolInv
  <2>1. ~UNCHANGED procs
    OBVIOUS
  <2>2. ~ \E c \in Clients : Arrive(c) \/ Request(c) \/ CommandEnds(c) \/ CommandFails(c)
    <3>1. ASSUME NEW c \in Clients, Spike(c) PROVE FALSE
      <4>1. PICK n \in Nat, r \in Requests :
              /\ procs' \in Seq(Processes) /\ Len(procs') = Len(procs) + n
              /\ \A i \in DOMAIN procs' : procs'[i] = IF i <= Len(procs) THEN procs[i] ELSE Proc(r)
        BY <2>0, <3>1, SpikeStep
      <4>2. /\ Len(procs) \in Nat /\ DOMAIN procs = 1 .. Len(procs)
            /\ DOMAIN procs' = 1 .. Len(procs) + n
        BY <2>0, <4>1, LenProperties DEF TypeOK
      <4> QED BY <4>1, <4>2
    <3> QED BY <2>1, <3>1 DEF Arrive, Request, DelayEnds, Refuse, Handle, CommandEnds, CommandFails, spikes
  <2>3. ~ \E i \in DOMAIN procs : Process(i)
    <3>1. ASSUME NEW i \in DOMAIN procs, Process(i) PROVE FALSE
      <4>1. procs[i] \in Processes
        BY <2>0, ProcFacts
      <4>2. DOMAIN procs = 1 .. Len(procs) /\ procs \in [DOMAIN procs -> Processes]
        BY <2>0, LenProperties DEF TypeOK
      <4> QED BY <3>1, <4>1, <4>2 DEF Process, Burn, BurnEnds, Dies, Become, Processes
    <3> QED BY <3>1
  <2>4. ~Tick
    BY <2>0, TickProcess
  <2>5. PICK t \in DOMAIN tasks : Task(t)
    BY <1>1, <2>1, <2>2, <2>3, <2>4 DEF Next, vars
  <2>6. Check(t) /\ p = tasks[t].next
    <3>1. procs \in [DOMAIN procs -> Processes] /\ tasks[t].next \in DOMAIN procs
      BY <2>0, <2>5, TaskFacts, LenProperties DEF TypeOK
    <3> QED BY <2>1, <2>5, <3>1 DEF Task, Wake, Check, Join, CloseKilled, Become
  <2>7. /\ tasks[t].age = tasks[t].until
        /\ \/ procs[p].late > Grace
           \/ procs[p].left = 0
           \/ procs[p].left + tasks[t].age + Grace <= tasks[t].until + procs[p].late
    <3>1. InTime(t) /\ p \in tasks[t].first .. tasks[t].last
      BY <1>1, <2>0, <2>5, <2>6, TaskFacts DEF ToolInv
    <3> QED BY <2>6, <3>1 DEF InTime, Check
  <2>8. procs[p].late \in Nat /\ procs[p].left \in Nat /\ tasks[t].until \in Nat /\ Grace \in Nat
    BY <2>0, <2>5, ProcFacts, TaskFacts, ToolsAssumption
  <2> QED BY <2>7, <2>8
<1>2. ToolInv /\ [Next]_vars => [P]_vars
  BY <1>1
<1> QED BY <1>2, ToolInvariance, PTL DEF Spec, CutOnlyLate
=============================================================================
