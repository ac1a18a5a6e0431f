--------------------------- MODULE TelemetryBridge ---------------------------
(***************************************************************************)
(* class TelemetryBridge of src/telemetry/TelemetryBridge.cpp: the node    *)
(* pushes JSON lines through a pipe to a confined child process, which     *)
(* publishes them to the dashboards.  Several threads of the node push     *)
(* without a lock.  Either process may die at any moment.                  *)
(*                                                                         *)
(* The pipe is counted in units of PIPE_BUF: a line of one unit is written *)
(* whole or not at all, a longer one as far as there is room.  A unit is   *)
(* the pair of its line and its place in the line; the last one carries    *)
(* the newline.                                                            *)
(***************************************************************************)
EXTENDS Naturals, Sequences, FiniteSetsExt

CONSTANTS
    Pusher,     \* threads that push
    Line,       \* lines, each pushed at most once
    Size,       \* units of a line
    Report,     \* what reaches the node: its line, its sender, its signature
    OwnId,      \* the node
    known_peers,\* peers whose key is known
    PIPE_CAP,   \* units the pipe holds
    BUFFER_CAP  \* stands for the 1 MiB of unfinished line the child keeps

ASSUME BridgeAssumption ==
    /\ Size \in [Line -> Nat \ {0}]
    /\ PIPE_CAP \in Nat \ {0} /\ BUFFER_CAP \in Nat
    /\ Report \subseteq [line : Line, from : known_peers \cup {OwnId, "stranger"},
                         sig : {"none", "good", "bad", "empty"}]

VARIABLES
    write_fd,   \* m_write_fd is valid
    child_pid,  \* m_child_pid > 0
    node,       \* the node runs, is in shutdown(), or is gone
    child,      \* where the child is
    unsafe,     \* NEURO_UNSAFE_NO_SANDBOX=1
    confined,   \* stages of the sandbox that took effect
    pipe,
    buffer,     \* PipeMonitorCtx::buffer
    published,  \* lines given to the dashboards
    pusher,     \* what each thread is doing
    result,     \* what push_telemetry returned
    telemetry,  \* m_own_telemetry and m_peer_telemetry
    torn        \* history: a line was cut or two were mixed, in pipe or buffer

bridgeVars == <<write_fd, child_pid, node, child, unsafe, confined, pipe, buffer,
                published, pusher, result, telemetry, torn>>

Stage == <<"no_new_privs", "fs_isolation", "uid_drop", "seccomp">>
ChildRunning == child \in Range(Stage) \cup {"listen", "serving"}

PusherIdle == [at |-> "idle"]

BridgeInit ==
    /\ write_fd = FALSE /\ child_pid = FALSE /\ node = "up"
    /\ child = "none" /\ unsafe \in BOOLEAN /\ confined = {}
    /\ pipe = <<>> /\ buffer = <<>> /\ published = <<>>
    /\ pusher = [t \in Pusher |-> PusherIdle]
    /\ result = [l \in Line |-> "none"] /\ torn = FALSE
    /\ telemetry = [p \in known_peers \cup {OwnId, "stranger"} |-> "none"]

-----------------------------------------------------------------------------
\* Parent

\* If pipe2 or fork fails the node goes on without a bridge.
spawn ==
    /\ node = "up" /\ ~child_pid /\ child = "none"
    /\ write_fd' = TRUE /\ child_pid' = TRUE
    /\ child' = IF unsafe THEN "listen" ELSE Stage[1]
    /\ UNCHANGED <<node, unsafe, confined, pipe, buffer, published, pusher, result, torn, telemetry>>

Units(l, from) == [i \in 1 .. Size[l] - from + 1 |-> <<l, from + i - 1>>]
Room == PIPE_CAP - Len(pipe)

\* What one non-blocking write of these units puts into the pipe.
Written(units) == SubSeq(units, 1, Min({Len(units), Room}))

\* These units come into the middle of another thread's line.
Mixes(t, put) == put # <<>> /\ \E u \in Pusher \ {t} : pusher[u].at = "rest"

Return(t, l, value) ==
    /\ result' = [result EXCEPT ![l] = value]
    /\ pusher' = [pusher EXCEPT ![t] = PusherIdle]

\* A pipe whose reader is gone refuses the write, a full one drops the line.
push_telemetry(t, l) ==
    /\ node = "up" /\ pusher[t] = PusherIdle /\ result[l] = "none"
    /\ LET units == Units(l, 1)
           put == IF write_fd /\ ChildRunning THEN Written(units) ELSE <<>>
       IN /\ pipe' = pipe \o put
          /\ torn' = (torn \/ Mixes(t, put))
          /\ \/ put = <<>> /\ Return(t, l, "err")
             \/ put = units /\ Return(t, l, "ok")
             \/ /\ put \notin {<<>>, units}
                /\ pusher' = [pusher EXCEPT ![t] = [at |-> "rest", line |-> l,
                                                    from |-> Len(put) + 1]]
                /\ UNCHANGED result
    /\ UNCHANGED <<write_fd, child_pid, node, child, unsafe, confined, buffer, published>>

\* Mutant: the rest is given up as if it had been written.
PushRest_Skipped(t) ==
    /\ node = "up" /\ pusher[t].at = "rest"
    /\ Return(t, pusher[t].line, "ok")
    /\ UNCHANGED <<write_fd, child_pid, node, child, unsafe, confined, buffer, published, pipe, torn, telemetry>>
\* The second write of a line that did not fit.  Only a failure is reported:
\* if this write is short as well the call succeeds.
PushRest(t) ==
    /\ node = "up" /\ pusher[t].at = "rest"
    /\ LET l == pusher[t].line
           units == Units(l, pusher[t].from)
           put == IF ChildRunning THEN Written(units) ELSE <<>>
       IN /\ pipe' = pipe \o put
          /\ torn' = (torn \/ put # units \/ Mixes(t, put))
          /\ Return(t, l, IF put = <<>> THEN "err" ELSE "ok")
    /\ UNCHANGED <<write_fd, child_pid, node, child, unsafe, confined, buffer, published, telemetry>>

OwnLine == {l \in Line : \A r \in Report : r.line # l}

\* gossip_event_json is the same but leaves m_own_telemetry alone.
gossip_telemetry(t, l) ==
    /\ push_telemetry(t, l)
    /\ telemetry' \in {telemetry, [telemetry EXCEPT ![OwnId] = l]}

\* An unsigned report is taken from anyone, a signed one only from a peer whose
\* key is known and if the signature, unless it decodes to nothing, is right.
AcceptsReport(r) ==
    /\ r.from # OwnId
    /\ r.sig # "none" => r.from \in known_peers /\ r.sig # "bad"

process_telemetry_gossip(t, r) ==
    /\ AcceptsReport(r)
    /\ push_telemetry(t, r.line)
    /\ telemetry' = [telemetry EXCEPT ![r.from] = r.line]

\* shutdown(): the write end is closed, then the child is waited for 3 seconds
\* and killed.  The SIGTERM in between only sets a flag: the child inherits the
\* node's handler.
BeginShutdown ==
    /\ node = "up" /\ \A t \in Pusher : pusher[t] = PusherIdle
    /\ IF child_pid THEN write_fd' = FALSE /\ node' = "shutdown"
                    ELSE UNCHANGED write_fd /\ node' = "gone"
    /\ UNCHANGED <<child_pid, child, unsafe, confined, pipe, buffer, published, pusher, result, torn, telemetry>>

ReapExited ==
    /\ node = "shutdown" /\ child = "exited"
    /\ child' = "reaped" /\ child_pid' = FALSE /\ node' = "gone"
    /\ UNCHANGED <<write_fd, unsafe, confined, pipe, buffer, published, pusher, result, torn, telemetry>>

\* Mutant: after the wait the child is left alone.
KillAndReap_NoKill ==
    /\ node = "shutdown"
    /\ child_pid' = FALSE /\ node' = "gone"
    /\ UNCHANGED <<write_fd, unsafe, confined, pipe, buffer, published, pusher, result, torn, child, telemetry>>
KillAndReap ==
    /\ node = "shutdown"
    /\ child' = "reaped" /\ child_pid' = FALSE /\ node' = "gone"
    /\ UNCHANGED <<write_fd, unsafe, confined, pipe, buffer, published, pusher, result, torn, telemetry>>

\* external: the node dies; the kernel closes its end of the pipe and init
\* collects the child.
NodeDies ==
    /\ node # "gone"
    /\ node' = "gone" /\ write_fd' = FALSE
    /\ pusher' = [t \in Pusher |-> PusherIdle]
    /\ UNCHANGED <<child_pid, child, unsafe, confined, pipe, buffer, published, result, torn, telemetry>>

-----------------------------------------------------------------------------
\* Child

Exit == child' = "exited" /\ UNCHANGED <<confined, pipe, buffer, published, torn>>

\* Mutant: a failure to isolate the file system is only logged.
apply_stage_Lenient(i) ==
    /\ child = Stage[i] /\ i < Len(Stage)
    /\ \/ /\ child' = Stage[i + 1]
          /\ \/ confined' = confined \cup {Stage[i]}
             \/ Stage[i] = "fs_isolation" /\ UNCHANGED confined
          /\ UNCHANGED <<pipe, buffer, published, torn>>
       \/ Exit
    /\ UNCHANGED <<write_fd, child_pid, node, unsafe, pusher, result, telemetry>>
\* A stage that fails ends the child.
apply_stage(i) ==
    /\ child = Stage[i] /\ i < Len(Stage)
    /\ \/ /\ child' = Stage[i + 1]
          /\ confined' = confined \cup {Stage[i]}
          /\ UNCHANGED <<pipe, buffer, published, torn>>
       \/ Exit
    /\ UNCHANGED <<write_fd, child_pid, node, unsafe, pusher, result, telemetry>>

\* A filter that cannot be made ends the child, one that cannot be loaded is
\* only reported.
apply_seccomp_filter ==
    /\ child = "seccomp"
    /\ \/ /\ child' = "listen"
          /\ confined' \in {confined, confined \cup {"seccomp"}}
          /\ UNCHANGED <<pipe, buffer, published, torn>>
       \/ Exit
    /\ UNCHANGED <<write_fd, child_pid, node, unsafe, pusher, result, telemetry>>

\* The port is taken, or the monitor thread is started.
run_event_loop ==
    /\ child = "listen"
    /\ \/ child' = "serving" /\ UNCHANGED <<confined, pipe, buffer, published, torn>>
       \/ Exit
    /\ UNCHANGED <<write_fd, child_pid, node, unsafe, pusher, result, telemetry>>

EndsLine(u) == u[2] = Size[u[1]]

\* The finished lines of a sequence of units, in the order of their ends, and
\* what follows them.
Finished(units) == {i \in 1 .. Len(units) : EndsLine(units[i])}
NthEnd(units, n) ==
    CHOOSE e \in Finished(units) : Cardinality({f \in Finished(units) : f <= e}) = n
LinesOf(units) ==
    [n \in 1 .. Cardinality(Finished(units)) |->
       LET e == NthEnd(units, n)
       IN SubSeq(units, Max({f \in Finished(units) : f < e} \cup {0}) + 1, e)]
RestOf(units) == SubSeq(units, Max(Finished(units) \cup {0}) + 1, Len(units))

\* Mutant: the rest of a read is not kept for the next one.
ReadPipe_NoRest ==
    /\ child = "serving" /\ pipe # <<>>
    /\ \E n \in 1 .. Len(pipe) :
          /\ pipe' = SubSeq(pipe, n + 1, Len(pipe))
          /\ published' = published \o LinesOf(SubSeq(pipe, 1, n))
    /\ UNCHANGED <<write_fd, child_pid, node, child, unsafe, confined, pusher, result,
                   telemetry, buffer, torn>>
\* One read of the monitor: the complete lines are published, the rest is kept
\* unless it has grown too long.
ReadPipe ==
    /\ child = "serving" /\ pipe # <<>>
    /\ \E n \in 1 .. Len(pipe) :
          LET units == buffer \o SubSeq(pipe, 1, n)
              rest == RestOf(units)
          IN /\ pipe' = SubSeq(pipe, n + 1, Len(pipe))
             /\ published' = published \o LinesOf(units)
             /\ buffer' = IF Len(rest) > BUFFER_CAP THEN <<>> ELSE rest
             /\ torn' = (torn \/ Len(rest) > BUFFER_CAP)
    /\ UNCHANGED <<write_fd, child_pid, node, child, unsafe, confined, pusher, result, telemetry>>

\* Mutant: end of file is taken for an empty pipe.
ReadEof_Ignored ==
    /\ child = "serving" /\ pipe = <<>> /\ ~write_fd
    /\ UNCHANGED bridgeVars
\* With the write end closed and the pipe drained, read returns 0.
ReadEof ==
    /\ child = "serving" /\ pipe = <<>> /\ ~write_fd
    /\ Exit
    /\ UNCHANGED <<write_fd, child_pid, node, unsafe, pusher, result, telemetry>>

\* external: an error of poll or read, a system call the filter forbids, a signal.
ChildDies ==
    /\ ChildRunning
    /\ Exit
    /\ UNCHANGED <<write_fd, child_pid, node, unsafe, pusher, result, telemetry>>

ChildStep ==
    \/ \E i \in 1 .. Len(Stage) : apply_stage(i)
    \/ apply_seccomp_filter \/ run_event_loop \/ ReadPipe \/ ReadEof

BridgeNext ==
    \/ spawn
    \/ \E t \in Pusher : \/ \E l \in OwnLine : gossip_telemetry(t, l)
                         \/ \E r \in Report : process_telemetry_gossip(t, r)
                         \/ PushRest(t)
    \/ BeginShutdown \/ ReapExited \/ KillAndReap \/ NodeDies
    \/ ChildStep \/ ChildDies

\* The scheduler runs the child while it can run.
BridgeFairness == WF_bridgeVars(ChildStep)
BridgeSpec == BridgeInit /\ [][BridgeNext]_bridgeVars /\ BridgeFairness

-----------------------------------------------------------------------------
\* Every line the child publishes is one line some thread pushed, whole, with
\* whatever reads and writes it was cut into on the way.  Excepted is what the
\* second write of push_telemetry cannot mend: a rest that was dropped or came
\* after another thread's line, and an overlong line discarded by the child.
LinesArriveWhole ==
    torn \/ \A i \in 1 .. Len(published) :
               \E l \in Line : published[i] = Units(l, 1)

\* The child takes connections only after every stage of the sandbox, in
\* production, except the seccomp filter whose loading may have failed.
ConfinedBeforeServing ==
    child = "serving" /\ ~unsafe => Range(Stage) \ {"seccomp"} \subseteq confined

\* shutdown() leaves neither a running child nor a zombie, whether the child
\* exits by itself, during the wait or after it, or is killed.
ShutdownLeavesNoChild == ~child_pid => child \in {"none", "reaped"}

\* The dashboards catch up again and again with the lines for which
\* push_telemetry returned Ok, unless the child dies or lines were torn, also
\* when the node shuts down meanwhile: the child drains the pipe before it sees
\* the end of file.
AcceptedIsPublished ==
    []<>(\/ ~ChildRunning \/ torn
         \/ \A l \in Line : result[l] = "ok" =>
                \E i \in 1 .. Len(published) : published[i] = Units(l, 1))

\* However the node ends, the child does not outlive it: the closed pipe ends
\* it at whatever point of its start it has reached.
EofEndsChild == (ChildRunning /\ node = "gone") ~> ~ChildRunning
=============================================================================
