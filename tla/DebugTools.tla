----------------------------- MODULE DebugTools -----------------------------
(***************************************************************************)
(* The diagnostic tools of app/routers/debug.py, the sleep and fib routes  *)
(* of app/routers/api.py, and the MCP tools of app/mcp/tools.py that call  *)
(* the same handlers, in one server: one event loop, which every request   *)
(* passes through ErrorInjectionMiddleware, the routers and the check of   *)
(* its credentials.                                                        *)
(*                                                                         *)
(* A scan, a ping or a fetch waits for commands it has no hold on.  A CPU  *)
(* spike starts processes that burn by themselves and answers at once; a   *)
(* cleanup task sleeps until they should be over and then closes them one  *)
(* by one, without letting go of the loop.  Time passes in ticks, for the  *)
(* burns and the cleanup's sleep; other timeouts may fire at any moment.   *)
(* What an answer says is left out.                                        *)
(***************************************************************************)
EXTENDS Naturals, Sequences

CONSTANTS
  Clients, None,
  Workloads,  \* a sequence of what a behaviour may consist of: the settings of
              \* the server, the clients at work, the requests they may make,
              \* and how many processes the system lets them start
  MaxProcs,   \* bound on those processes
  MaxDuration,  \* the longest burn, in ticks
  Grace       \* what the cleanup adds to the duration, 5 seconds, in ticks

Tools == {"cpu_spike", "network_scan", "ping", "dns", "curl", "tcp_check", "echo_body",
          "echo_headers", "random_error", "sleep", "fib"}

\* What decides about a request: its delay_ms means more than zero, it has an
\* inject_error, its credentials are accepted (AuthBackoff.tla), its arguments
\* pass the models, the check of the host and the resolution this needs.
Requests == [tool : Tools, via : {"rest", "mcp"}, delay : BOOLEAN, error : BOOLEAN,
             auth : BOOLEAN, args : BOOLEAN, cores : 1 .. MaxProcs, duration : 1 .. MaxDuration]
Settings == [injection : BOOLEAN, capped : Nat, debug : BOOLEAN, mcp : BOOLEAN]

ASSUME ToolsAssumption ==
  /\ MaxProcs \in Nat \ {0} /\ MaxDuration \in Nat \ {0} /\ Grace \in Nat \ {0}
  /\ None \notin [request : Requests, at : STRING, todo : Seq(STRING)] \cup Nat
  /\ Workloads \in Seq([settings : Settings, clients : SUBSET Clients, requests : SUBSET Requests,
                        procs : 0 .. MaxProcs])

VARIABLES
  req,     \* req[c]: the request client c waits for, where it is and the
           \* commands it has still to run; or None
  procs,   \* the processes that spikes have started, in that order
  active,  \* _active_cpu_procs
  tasks,   \* the cleanup tasks
  loop,    \* the cleanup task that holds the event loop, or None
  load     \* which workload this behaviour has

vars == <<req, procs, active, tasks, loop, load>>
spikes == <<procs, active, tasks, loop>>

Work == Workloads[load]
Conf == Work.settings

Init ==
  /\ req = [c \in Clients |-> None]
  /\ procs = <<>> /\ active = {} /\ tasks = <<>> /\ loop = None
  /\ load \in DOMAIN Workloads

At(c, here) == req[c] # None /\ req[c].at = here
Respond(c) == req' = [req EXCEPT ![c] = None]
-----------------------------------------------------------------------------
(* From the socket to the handler.                                          *)

\* ErrorInjectionMiddleware waits for a delay first, unless that is capped at
\* zero, and then answers by itself when an error is asked for.
Delayed(r) == Conf.injection /\ r.delay /\ Conf.capped > 0
Waiting(r, here) == [request |-> r, at |-> here, todo |-> <<>>]
Forwarded(r) == IF Conf.injection /\ r.error THEN None ELSE Waiting(r, "handler")

Arrive(c) ==
  /\ loop = None /\ c \in Work.clients /\ req[c] = None
  /\ \E r \in Work.requests :
       req' = [req EXCEPT ![c] = IF Delayed(r) THEN Waiting(r, "delay") ELSE Forwarded(r)]
  /\ UNCHANGED <<spikes, load>>

DelayEnds(c) ==
  /\ loop = None /\ At(c, "delay")
  /\ req' = [req EXCEPT ![c] = Forwarded(@.request)]
  /\ UNCHANGED <<spikes, load>>

\* The request has a route, may use it, and its arguments pass.  Without the
\* debug router or the MCP mount there is none, nor has MCP an echo_headers;
\* sleep and fib ask for no credentials, except through MCP.
Allowed(r) ==
  /\ IF r.via = "mcp" THEN Conf.mcp /\ r.tool # "echo_headers" ELSE r.tool \in {"sleep", "fib"} \/ Conf.debug
  /\ r.auth \/ (r.via = "rest" /\ r.tool \in {"sleep", "fib"})
  /\ r.args

Refuse(c) ==
  /\ loop = None /\ At(c, "handler") /\ ~Allowed(req[c].request)
  /\ Respond(c)
  /\ UNCHANGED <<spikes, load>>
-----------------------------------------------------------------------------
(* Tools that wait for something.                                           *)

\* What the handler awaits, in order; for echo_body it is the rest of the
\* request, which MCP has already.  The TCP check of a scan and that of
\* tcp_check are calls that block, and need no step.
Commands(r) ==
  CASE r.tool = "network_scan" -> <<"ping", "dns", "traceroute">>
    [] r.tool = "echo_body" /\ r.via = "rest" -> <<"body">>
    [] r.tool \in {"ping", "dns", "curl", "sleep", "fib"} -> <<r.tool>>
    [] OTHER -> <<>>

\* Mutant: the scan's traceroute has no timeout.
LimitedPing == {"ping"}

\* The commands awaited under wait_for, and those that end by themselves.
Limited == {"ping", "traceroute"}
Ending == {"dns", "sleep", "fib", "body"}

Handle(c) ==
  /\ loop = None /\ At(c, "handler") /\ Allowed(req[c].request)
  /\ req[c].request.tool # "cpu_spike"
  /\ LET commands == Commands(req[c].request) IN
     IF commands = <<>> THEN Respond(c)
     ELSE req' = [req EXCEPT ![c].at = "command", ![c].todo = commands]
  /\ UNCHANGED <<spikes, load>>

NextCommand(c) ==
  IF Len(req[c].todo) = 1 THEN Respond(c) ELSE req' = [req EXCEPT ![c].todo = Tail(@)]

CommandEnds(c) ==
  /\ loop = None /\ At(c, "command")
  /\ NextCommand(c)
  /\ UNCHANGED <<spikes, load>>

\* A command that fails, or that is given up and goes on by itself: an error
\* in its section of a scan, the end of any other tool.  The dns section
\* catches gaierror only: another error of the resolver ends the scan.
CommandFails(c) ==
  /\ loop = None /\ At(c, "command") /\ Head(req[c].todo) \notin {"sleep", "fib"}
  /\ LET scan == req[c].request.tool = "network_scan" IN
     \/ scan /\ NextCommand(c)
     \/ (scan => Head(req[c].todo) = "dns") /\ Respond(c)
  /\ UNCHANGED <<spikes, load>>

CommandTimesOut(c) == CommandFails(c) /\ Head(req[c].todo) \in Limited
-----------------------------------------------------------------------------
(* CPU spikes.                                                              *)

\* A process of a spike: late, the ticks between its start and the first line
\* of _cpu_burn, and left, those its burn has still to go.
Proc(r) == [state |-> "starting", late |-> 0, left |-> r.duration]
Alive(p) == procs[p].state # "dead"

\* Mutant: the cleanup allows for no more than the duration.
CleanupWithoutGrace(r, first, last) ==
  [first |-> first, last |-> last, next |-> first, age |-> 0, until |-> r.duration, at |-> "sleep"]

\* A cleanup task: the processes from first to last are its own, next is the
\* one it has got to, age and until the ticks of its sleep.
Cleanup(r, first, last) ==
  [first |-> first, last |-> last, next |-> first, age |-> 0, until |-> r.duration + Grace, at |-> "sleep"]

\* Mutant: a process is listed before its start().
SpikeListsFirst(c) ==
  /\ loop = None /\ At(c, "handler") /\ Allowed(req[c].request)
  /\ req[c].request.tool = "cpu_spike"
  /\ \E n \in 0 .. req[c].request.cores :
       LET r == req[c].request
           last == Len(procs) + n IN
       /\ last <= Work.procs
       /\ procs' = procs \o [i \in 1 .. n |-> Proc(r)]
       /\ active' = active \cup (Len(procs) + 1 .. (IF n = r.cores THEN last ELSE last + 1))
       /\ tasks' = IF n = r.cores THEN Append(tasks, Cleanup(r, Len(procs) + 1, last)) ELSE tasks
  /\ Respond(c)
  /\ UNCHANGED <<loop, load>>

\* cpu_spike: one step, since nothing in it waits.  When a start() fails the
\* exception ends it, with the processes before that one started and listed.
Spike(c) ==
  /\ loop = None /\ At(c, "handler") /\ Allowed(req[c].request)
  /\ req[c].request.tool = "cpu_spike"
  /\ \E n \in 0 .. req[c].request.cores :
       LET r == req[c].request
           last == Len(procs) + n IN
       /\ last <= Work.procs
       /\ procs' = procs \o [i \in 1 .. n |-> Proc(r)]
       /\ active' = active \cup (Len(procs) + 1 .. last)
       /\ tasks' = IF n = r.cores THEN Append(tasks, Cleanup(r, Len(procs) + 1, last)) ELSE tasks
  /\ Respond(c)
  /\ UNCHANGED <<loop, load>>

\* Once its burn is over, or cut, the ticks of a process do not matter.
Become(p, s) == procs' = [procs EXCEPT ![p] = [state |-> s, late |-> 0, left |-> 0]]

\* A process, which the loop does not hold up: it gets to its burn, ends it,
\* or dies of a signal.
Burn(p) ==
  /\ procs[p].state = "starting"
  /\ procs' = [procs EXCEPT ![p].state = "burning"]
  /\ UNCHANGED <<req, active, tasks, loop, load>>

BurnEnds(p) ==
  /\ procs[p].state = "burning" /\ procs[p].left = 0
  /\ Become(p, "dead")
  /\ UNCHANGED <<req, active, tasks, loop, load>>

Dies(p) ==
  /\ procs[p].state \in {"terminated", "killed"}
  /\ Become(p, "dead")
  /\ UNCHANGED <<req, active, tasks, loop, load>>

\* _cleanup_cpu_procs wakes, and holds the loop until it ends.
Wake(t) ==
  /\ loop = None /\ tasks[t].at = "sleep" /\ tasks[t].age = tasks[t].until
  /\ tasks' = [tasks EXCEPT ![t].at = "check"]
  /\ loop' = t
  /\ UNCHANGED <<req, procs, active, load>>

\* close() of a process that has ended, and the next one; after the last one
\* they all come off the list.
Close(t) ==
  IF tasks[t].next = tasks[t].last
  THEN /\ tasks' = [tasks EXCEPT ![t].at = "done"]
       /\ active' = active \ (tasks[t].first .. tasks[t].last)
       /\ loop' = None
  ELSE /\ tasks' = [tasks EXCEPT ![t].at = "check", ![t].next = @ + 1]
       /\ UNCHANGED <<active, loop>>

Check(t) ==
  /\ loop = t /\ tasks[t].at = "check"
  /\ LET p == tasks[t].next IN
     \/ ~Alive(p) /\ Close(t) /\ UNCHANGED procs
     \/ /\ Alive(p)
        /\ Become(p, "terminated")
        /\ tasks' = [tasks EXCEPT ![t].at = "join"]
        /\ UNCHANGED <<active, loop>>
  /\ UNCHANGED <<req, load>>

\* Mutant: a join() without a timeout.
JoinForEver(t) ==
  /\ loop = t /\ tasks[t].at = "join" /\ ~Alive(tasks[t].next)
  /\ Close(t)
  /\ UNCHANGED <<req, procs, load>>

\* join(timeout=5), and kill() when that was not enough.
Join(t) ==
  /\ loop = t /\ tasks[t].at = "join"
  /\ LET p == tasks[t].next IN
     \/ ~Alive(p) /\ Close(t) /\ UNCHANGED procs
     \/ /\ Alive(p)
        /\ Become(p, "killed")
        /\ tasks' = [tasks EXCEPT ![t].at = "close"]
        /\ UNCHANGED <<active, loop>>
  /\ UNCHANGED <<req, load>>

\* Mutant: close() of a process that still runs is let pass.
CloseAnyway(t) ==
  /\ loop = t /\ tasks[t].at = "close"
  /\ Close(t)
  /\ UNCHANGED <<req, procs, load>>

\* close() after the kill: it raises when the process has not ended yet, which
\* ends the task.
CloseKilled(t) ==
  /\ loop = t /\ tasks[t].at = "close"
  /\ \/ ~Alive(tasks[t].next) /\ Close(t)
     \/ /\ Alive(tasks[t].next)
        /\ tasks' = [tasks EXCEPT ![t].at = "failed"]
        /\ loop' = None
        /\ UNCHANGED active
  /\ UNCHANGED <<req, procs, load>>

\* Time passes; a lateness past the grace is no longer told apart.
Tick ==
  /\ procs' = [p \in DOMAIN procs |->
       CASE procs[p].state = "starting" /\ procs[p].late <= Grace -> [procs[p] EXCEPT !.late = @ + 1]
         [] procs[p].state = "burning" /\ procs[p].left > 0 -> [procs[p] EXCEPT !.left = @ - 1]
         [] OTHER -> procs[p]]
  /\ tasks' = [t \in DOMAIN tasks |->
       IF tasks[t].at = "sleep" /\ tasks[t].age < tasks[t].until
       THEN [tasks[t] EXCEPT !.age = @ + 1] ELSE tasks[t]]
  /\ UNCHANGED <<req, active, loop, load>>

Request(c) == DelayEnds(c) \/ Refuse(c) \/ Handle(c) \/ Spike(c)
Process(p) == Burn(p) \/ BurnEnds(p) \/ Dies(p)
Task(t) == Wake(t) \/ Check(t) \/ Join(t) \/ CloseKilled(t)

Next ==
  \/ \E c \in Clients : Arrive(c) \/ Request(c) \/ CommandEnds(c) \/ CommandFails(c)
  \/ \E p \in DOMAIN procs : Process(p)
  \/ \E t \in DOMAIN tasks : Task(t)
  \/ Tick

Spec == Init /\ [][Next]_vars

\* The loop runs what is ready, timers fire, a client sends the body it has
\* announced, and a resolver, a sleep, a burn and a killed process end; a
\* ping, a traceroute, a peer of curl, and a process told to terminate need not.
FairSpec ==
  /\ Spec
  /\ \A c \in Clients :
       /\ WF_vars(Request(c))
       /\ WF_vars(CommandTimesOut(c) \/ (CommandEnds(c) /\ Head(req[c].todo) \in Ending))
  /\ WF_vars(\E p \in DOMAIN procs : Process(p) /\ procs[p].state # "terminated")
  /\ WF_vars(\E t \in DOMAIN tasks : Task(t))
  /\ WF_vars(Tick)
-----------------------------------------------------------------------------
Pending ==
  [request : Requests, at : {"delay", "handler", "command"},
   todo : Seq({"ping", "dns", "traceroute", "curl", "sleep", "fib", "body"})]

Processes ==
  [state : {"starting", "burning", "terminated", "killed", "dead"},
   late : 0 .. Grace + 1, left : 0 .. MaxDuration]

Cleanups ==
  [first : 1 .. MaxProcs, last : 1 .. MaxProcs, next : 1 .. MaxProcs,
   age : 0 .. MaxDuration + Grace, until : 1 .. MaxDuration + Grace,
   at : {"sleep", "check", "join", "close", "done", "failed"}]

TypeOK ==
  /\ req \in [Clients -> Pending \cup {None}]
  /\ \A c \in Clients : At(c, "command") => req[c].todo # <<>>
  /\ procs \in Seq(Processes) /\ Len(procs) <= MaxProcs
  /\ active \subseteq DOMAIN procs
  /\ tasks \in Seq(Cleanups)
  /\ \A t \in DOMAIN tasks : /\ tasks[t].first <= tasks[t].next /\ tasks[t].next <= tasks[t].last
                            /\ tasks[t].last <= Len(procs)
  /\ loop \in DOMAIN tasks \cup {None}
  /\ load \in DOMAIN Workloads

\* "Track CPU spike processes": a process that runs is on the list, however
\* its spike or its cleanup has ended.
LiveAreListed == \A p \in DOMAIN procs : Alive(p) => p \in active

\* The cleanup cuts a burn short only when that began more than the grace
\* after its process was started, late as the cleanup itself may be.
CutOnlyLate ==
  [][\A p \in DOMAIN procs :
       (procs[p].state # "terminated" /\ procs'[p].state = "terminated") =>
         procs[p].left = 0 \/ procs[p].late > Grace]_vars

\* Nobody cleans up after this process: its spike failed, or its cleanup did.
Abandoned(p) ==
  \A t \in DOMAIN tasks : p \in tasks[t].first .. tasks[t].last => tasks[t].at = "failed"

\* Every process of a spike ends, and comes off the list unless a start() or
\* a close() failed.
SpikesCleared ==
  \A p \in 1 .. MaxProcs :
    (p \in DOMAIN procs) ~> (p \in DOMAIN procs /\ ~Alive(p) /\ (p \notin active \/ Abandoned(p)))

\* Every request is answered, whatever its commands do, with the loop blocked
\* now and then by a cleanup; a curl whose peer keeps sending is not.
Answered ==
  \A c \in Clients : (req[c] # None /\ req[c].request.tool # "curl") ~> (req[c] = None)
=============================================================================
