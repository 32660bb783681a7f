------------------------------ MODULE Checker ------------------------------
(***************************************************************************)
(* lkm4ctr_checker, the userspace program that probes what the kernel (with*)
(* or without lkm4ctr.ko) really does.  main() runs one test after the     *)
(* other; most tests fork a throwaway child, some a grandchild, and get    *)
(* the answer back through a pipe.                                         *)
(*                                                                         *)
(* Every function shadow_checker_*() is a script: the sequence of the      *)
(* system calls it makes, each with the script that replaces the rest when *)
(* the call fails.  A process holds the part of its script that is still   *)
(* to run; running off its end is returning to main(), or _exit(0) in a    *)
(* child.  The processes interleave.  Pipes, fork(2), waitpid(2), signals  *)
(* and the death of a process have their kernel semantics: a read blocks   *)
(* while a write end is open anywhere and takes everything that is there,  *)
(* a write without a reader is SIGPIPE, an exiting process closes its      *)
(* descriptors, a child may be killed at any time from outside.            *)
(*                                                                         *)
(* effect is what the kernel really does for the test in progress: "full"  *)
(* isolation, "none" (calls return as if, and nothing happened), "lost"    *)
(* (nothing happened, and a call that waits for it waits for ever) and,    *)
(* for the pid test, a /proc that is "exposed" to lookups or "leaky" in    *)
(* readdir.                                                                *)
(* Payload texts, waiting times and the -q switch's printing are left out. *)
(***************************************************************************)
EXTENDS Naturals, Sequences, FiniteSets, SequencesExt

CONSTANT Order    \* the tests that are run, one after the other

VARIABLES
  uid0,     \* is the checker started by root?
  cur,      \* index into Order of the test in progress
  code,     \* per process: what is left of its script
  life,     \* per process: "none", "alive", "stopped", "dead", "reaped"
  status,   \* per process: its exit status
  fds,      \* per process: the pipe ends it has open
  pipe,     \* per pipe: the messages in it
  msg,      \* per process: the message it read last
  bad,      \* per process: results among {"FAIL","STUB"} counted in this test
  sig,      \* g_checker_got_signal of the grandchild
  objs,     \* kernel objects of the test that exist outside any process
  effect,   \* what the kernel does for this test
  lines,    \* history: the results printed in this test
  failed    \* history: calls that failed in this test, and "killed"

procVars == <<code, life, status, fds, msg, bad>>
histVars == <<lines, failed>>
vars == <<uid0, cur, procVars, pipe, sig, objs, effect, histVars>>

Proc == {"main", "child", "grand"}
Sub  == {"child", "grand"}
ChildOf == [main |-> "child", child |-> "grand"]
PipeEnd == {"r", "s"} \X {"R", "W"}
Result == {"PASS", "STUB", "FAIL", "SKIP"}

-----------------------------------------------------------------------------
(* The calls a script is made of. *)

Try(call, fail)   == [op |-> "try", call |-> call, fail |-> fail]
Make(o, fail)     == [op |-> "make", obj |-> o, fail |-> fail]
Drop(o)           == [op |-> "drop", obj |-> o]
Pipe(q, fail)     == [op |-> "pipe", q |-> q, fail |-> fail]
Close(q, end)     == [op |-> "close", fd |-> <<q, end>>]
Fork(child, fail) == [op |-> "fork", child |-> child, fail |-> fail]
SendAny(q, ms)    == [op |-> "send", q |-> q, ms |-> ms]
Recv(q, none)     == [op |-> "recv", q |-> q, none |-> none]
Report(res)       == [op |-> "report", res |-> res]
Exit(n)           == [op |-> "exit", status |-> n]
WaitOk(fail)      == [op |-> "waitok", fail |-> fail]
WaitStop(fail)    == [op |-> "waitstop", fail |-> fail]
On(m, then)       == [op |-> "on", m |-> m, then |-> then]
Observe(e, then)  == [op |-> "observe", e |-> e, then |-> then]
Kill(fail)        == [op |-> "kill", fail |-> fail]
Cont(fail)        == [op |-> "cont", fail |-> fail]
Op(name)          == [op |-> name]

Send(q, m) == SendAny(q, {m})
\* waitpid() whose result is ignored.
Wait == Op("wait")
\* An exit status is a set of flags, {} for the expected one.
Status == (SUBSET {"FAIL", "STUB"}) \cup {{"one"}, {"signal"}}

\* shadow_checker_send_err()
SendErr == <<Send("r", "ERR")>>

\* shadow_checker_report(): the line is printed and a FAIL or STUB counted.
Say(res) == <<Report(res)>>

\* The test ends in the line res, whatever message arrived.
Judge(m, res) == On(m, Say(res))

(***************************************************************************)
(* The skeleton most tests share: a pipe, a child that answers through it, *)
(* then the verdict over its answer.                                       *)
(***************************************************************************)
PipeTest(child, verdict) ==
  <<Pipe("r", Say("SKIP")),
    Fork(<<Close("r", "R")>> \o child,
         Say("SKIP") \o <<Close("r", "R"), Close("r", "W")>>),
    Close("r", "W"),
    Recv("r", Say("SKIP") \o <<Close("r", "R"), Wait>>),
    Close("r", "R"),
    Wait>> \o verdict

\* The child enters a new pid namespace and forks its first task.
PidChild(init) == <<Try("unshare", SendErr), Fork(init, SendErr), Wait>>

\* What the probing process saw, sent as its answer.
SendSeen == <<Observe("full", <<Send("r", "good")>>), Send("r", "bad")>>

\* The usual verdict: an error is FAIL, no effect is STUB.
Verdict == <<Judge("ERR", "FAIL"), Judge("good", "PASS"), Report("STUB")>>

-----------------------------------------------------------------------------
(* The tests. *)

utsChild == <<Try("unshare", SendErr), Try("sethostname", SendErr), Send("r", "OK")>>

\* The parent compares its own hostname before and after; a name that cannot be
\* read counts as empty, so two of them are the same.
uts == <<Try("before", PipeTest(utsChild, <<Judge("ERR", "FAIL"), Try("after", Say("PASS")),
                                            Report("STUB")>>))>>
         \o PipeTest(utsChild, <<Judge("ERR", "FAIL"), Try("after", Say("STUB")),
                                 Observe("full", Say("PASS")), Report("STUB")>>)

\* Mutant: the /proc result is judged before the pid is.
pidVerdict_ProcOnly ==
  <<Judge("ERR", "FAIL"), Judge("nofresh", "SKIP"), Judge("bad", "FAIL"),
    Report("PASS")>>

\* A pid that is not 1 makes the /proc question moot; a listing that could
\* not be read counts as filtered (proc_listing_ok stays -1).
pidVerdict ==
  <<Judge("ERR", "FAIL"), On("notone", Say("STUB") \o Say("SKIP")),
    Report("PASS"), Judge("nofresh", "SKIP"), Judge("bad", "FAIL"),
    Report("PASS")>>

pid == PipeTest(PidChild(
         <<Observe("none", <<Send("r", "notone")>>),
           Try("mount", <<Send("r", "nofresh")>>),
           Try("open", <<Send("r", "bad")>>),
           Observe("exposed", <<Send("r", "bad")>>),
           Try("opendir", <<Send("r", "good")>>),
           Observe("leaky", <<Send("r", "bad")>>),
           Send("r", "good")>>), pidVerdict)

\* A stat or status file that cannot be read leaves the fields at -1.
contentInit == <<Try("setsid", SendErr), Try("mount", <<Send("r", "nofresh")>>),
                 Try("open", <<Send("r", "bad")>>)>> \o SendSeen

pid_procfs_content ==
  PipeTest(PidChild(contentInit), <<Judge("nofresh", "SKIP")>> \o Verdict)

pid_pgrp == PipeTest(PidChild(<<Try("setsid", SendErr)>> \o SendSeen), Verdict)

\* The grandchild announces itself, then loops on pause() until the handler
\* has run.
signalGrand == <<Close("s", "R"), Send("s", "OK"), Op("check"),
                 Send("s", "received")>>

signalTail == <<Close("s", "R"), Wait>>

signalChild ==
  <<Try("unshare", SendErr), Pipe("s", SendErr), Fork(signalGrand, SendErr),
    Close("s", "W"),
    Recv("s", SendErr \o signalTail),
    Kill(SendErr \o signalTail),
    Recv("s", <<Send("r", "undelivered")>> \o signalTail),
    Send("r", "delivered")>> \o signalTail

pid_signal == PipeTest(signalChild, <<Judge("delivered", "PASS"), Report("FAIL")>>)

nsChild == <<Try("unshare", SendErr), Try("readlink", <<Send("r", "noid")>>)>> \o SendSeen

\* The child's id is compared with the one the parent read before; without that
\* (have_before) any id counts as changed.  A kernel without effect leaves the
\* id as it was.
generic_ns == <<Try("before", PipeTest(nsChild, <<Judge("ERR", "FAIL"), Judge("noid", "STUB"),
                                                  Report("PASS")>>))>>
                \o PipeTest(nsChild, Verdict)

userTest == PipeTest(<<Try("unshare", SendErr)>> \o SendSeen, Verdict)

\* uid 0 cannot tell a remap to 0 from none: the test is run again by a
\* throwaway process with uid 1, which returns what it counted as its status.
run_as_uid1(test) ==
  <<Fork(<<Try("setuid", Say("SKIP"))>> \o test, Say("SKIP")), Op("waitcounts")>>

user == IF uid0 THEN run_as_uid1(userTest) ELSE userTest

\* Mutant: the error is not reported.
mappingError_Silent == <<Close("s", "W"), Wait, Close("r", "R")>>

\* A failed step after the answer "ready": the sync pipe is closed, which the
\* child takes for an error of its own.
mappingError == <<Close("s", "W"), Wait, Close("r", "R"), Report("FAIL")>>

\* Mutant: the child keeps the write end of the pipe it waits on.
idmapChild_KeepsSync(setuid) ==
  <<Close("r", "R")>> \o setuid \o
  <<Try("unshare", <<SendAny("r", {"ERR", "ENOENT"})>>),
    Send("r", "ready"), Recv("s", SendErr), Close("s", "R"), Close("s", "W"),
    Try("getresuid", SendErr)>> \o SendSeen

\* Mutant: the result is sent without waiting for the maps.
idmapChild_NoSync(setuid) ==
  <<Close("r", "R"), Close("s", "W")>> \o setuid \o
  <<Try("unshare", <<SendAny("r", {"ERR", "ENOENT"})>>),
    Send("r", "ready"), Try("getresuid", SendErr)>> \o SendSeen
    \o <<Recv("s", <<>>)>>

idmapChild(setuid) ==
  <<Close("r", "R"), Close("s", "W")>> \o setuid \o
  <<Try("unshare", <<SendAny("r", {"ERR", "ENOENT"})>>),
    Send("r", "ready"), Recv("s", SendErr), Close("s", "R"),
    Try("getresuid", SendErr)>> \o SendSeen

\* The three exits before "ready" was understood.
idmapEnd(res) == Say(res) \o <<Close("s", "W"), Close("r", "R"), Wait>>

write_userns_map(file) == Try(file, mappingError)

idmapVerdict ==
  <<Recv("r", Say("SKIP") \o <<Close("r", "R"), Wait>>), Close("r", "R"), Wait>>
    \o Verdict

user_idmap ==
  <<Pipe("r", Say("SKIP")),
    Pipe("s", <<Close("r", "R"), Close("r", "W"), Report("SKIP")>>),
    Fork(idmapChild(IF uid0 THEN <<Try("setuid", SendErr)>> ELSE <<>>),
         Say("SKIP") \o <<Close("r", "R"), Close("r", "W"), Close("s", "R"),
                          Close("s", "W")>>),
    Close("r", "W"), Close("s", "R"),
    Recv("r", idmapEnd("SKIP")),
    On("ENOENT", idmapEnd("STUB")), On("ERR", idmapEnd("FAIL")),
    On("garbled", idmapEnd("SKIP")),
    write_userns_map("setgroups"), write_userns_map("uid_map"),
    write_userns_map("gid_map"),
    Send("s", "release"), Close("s", "W")>> \o idmapVerdict

proc_ns_access == <<Try("access", Say("FAIL")), Report("PASS")>>

proc_ns_nofollow ==
  <<Make("fd", Say("FAIL")), Try("fstat", <<Drop("fd"), Report("FAIL")>>),
    Drop("fd"), Observe("full", Say("PASS")), Report("FAIL")>>

\* Mutant: the error exits of the clone tests leave the semaphore behind.
semFail_KeepsSem == Say("FAIL")

\* Leaving a clone test early: the semaphore goes with the FAIL line.
semFail == Say("FAIL") \o <<Drop("sem")>>

cloneIpcEnd(res) == Say(res) \o <<Close("r", "R"), Drop("sem")>>

clone_newipc ==
  <<Make("sem", Say("FAIL")), Try("semadd", semFail), Pipe("r", semFail),
    Try("malloc", Say("FAIL")
                    \o <<Close("r", "R"), Close("r", "W"), Drop("sem")>>),
    Fork(<<Observe("none", <<Send("r", "bad"), Exit({"one"})>>),
           Try("semget", <<Send("r", "bad"), Exit({"one"})>>),
           Send("r", "good")>>,
         <<Close("r", "W")>> \o cloneIpcEnd("FAIL")),
    Close("r", "W"),
    Recv("r", <<Wait>> \o cloneIpcEnd("FAIL")),
    WaitOk(cloneIpcEnd("FAIL")),
    On("good", cloneIpcEnd("PASS"))>> \o cloneIpcEnd("FAIL")

clone_sysvsem ==
  <<Make("sem", Say("FAIL")), Try("semadd", semFail), Try("malloc", semFail),
    Fork(<<Try("semop", <<Exit({"one"})>>)>>, semFail),
    WaitOk(semFail),
    Observe("none", semFail), Report("PASS"), Drop("sem")>>

\* A round trip through one object, which goes on every path.
RoundTrip(o, calls) ==
  <<Make(o, Say("FAIL"))>>
    \o [i \in 1..Len(calls) |-> Try(calls[i], Say("FAIL") \o <<Drop(o)>>)]
    \o <<Drop(o), Observe("full", Say("PASS")), Report("STUB")>>

mqueue      == RoundTrip("mq", <<"mq_send", "mq_receive">>)
mqueue_attr == RoundTrip("mq", <<"mq_getattr", "mq_setattr", "mq_getattr">>)
sysvipc     == RoundTrip("msq", <<"msgsnd", "msgrcv">>)
sysv_sem    == RoundTrip("sem", <<"SETVAL", "semop">>)
sysv_shm    == RoundTrip("shm", <<"shmat">>)

\* The directories under /tmp are never removed.
overlay == PipeTest(<<Try("unshare", SendErr), Make("tmpdir", SendErr),
                      Try("mkdir", SendErr), Try("mount", SendErr),
                      Try("umount2", <<Send("r", "OK")>>), Send("r", "OK")>>,
                    <<Judge("ERR", "FAIL"), Report("PASS")>>)

pidfd == <<Fork(<<>>, Say("SKIP")), Make("pidfd", Say("FAIL") \o <<Wait>>),
           Op("poll"), Drop("pidfd"), Wait, Judge("POLLIN", "PASS"),
           Report("STUB")>>

ptraceFail == Say("FAIL") \o <<Op("sigkill"), Wait>>

ptrace == <<Fork(<<Try("traceme", <<Exit({"one"})>>), Op("stop")>>, Say("SKIP")),
            WaitStop(ptraceFail), Cont(ptraceFail), Wait,
            Report("PASS")>>

\* One throwaway child per reaping call; status {} stands for its own exit code.
Reap(call) == <<Fork(<<>>, Say("SKIP")), Try(call, Say("FAIL")),
                WaitOk(Say("STUB")), Observe("none", Say("STUB"))>>

wait == Reap("wait4") \o Reap("waitid") \o Say("PASS")

-----------------------------------------------------------------------------
(* main() *)

\* The calls in main(), in their order.  proc_ns_access, proc_ns_nofollow and
\* generic_ns run once more per namespace type, with the same script.
mainTests ==
  <<"uts", "pid", "pid_procfs_content", "pid_signal", "pid_pgrp", "pidfd",
    "ptrace", "wait", "user", "user_idmap", "proc_ns_access",
    "proc_ns_nofollow", "generic_ns", "clone_newipc", "mqueue", "mqueue_attr",
    "sysvipc", "sysv_sem", "clone_sysvsem", "sysv_shm", "overlay">>

ASSUME OrderAssumption == Order \in Seq(ToSet(mainTests))

Script(t) ==
  [uts |-> uts, pid |-> pid, pid_procfs_content |-> pid_procfs_content,
   pid_signal |-> pid_signal, pid_pgrp |-> pid_pgrp, pidfd |-> pidfd,
   ptrace |-> ptrace, wait |-> wait, user |-> user, user_idmap |-> user_idmap,
   proc_ns_access |-> proc_ns_access, proc_ns_nofollow |-> proc_ns_nofollow,
   generic_ns |-> generic_ns, clone_newipc |-> clone_newipc,
   mqueue |-> mqueue, mqueue_attr |-> mqueue_attr, sysvipc |-> sysvipc,
   sysv_sem |-> sysv_sem, clone_sysvsem |-> clone_sysvsem,
   sysv_shm |-> sysv_shm, overlay |-> overlay][t]

\* What the kernel may do.
Effects(t) ==
  CASE t = "pid" -> {"full", "none", "exposed", "leaky"}
    [] t \in {"mqueue", "sysvipc", "sysv_sem", "clone_sysvsem"} -> {"full", "none", "lost"}
    [] t = "ptrace" -> {"full", "lost"}
    [] OTHER -> {"full", "none"}

EffectsAt(i) == IF i \in DOMAIN Order THEN Effects(Order[i]) ELSE {"full"}

\* main() is about to run its i-th test.
Entry(i) == [p \in Proc |-> IF p = "main" /\ i \in DOMAIN Order
                            THEN Script(Order[i]) ELSE <<>>]

\* Nothing has happened in the test yet.
NoLife == [p \in Proc |-> IF p = "main" THEN "alive" ELSE "none"]
NoSet  == [p \in Proc |-> {}]
NoMsg  == [p \in Proc |-> "none"]
Empty  == [q \in {"r", "s"} |-> <<>>]

Init ==
  /\ uid0 \in BOOLEAN /\ cur = 1
  /\ code = Entry(1) /\ effect \in EffectsAt(1)
  /\ life = NoLife /\ status = NoSet /\ fds = NoSet /\ bad = NoSet
  /\ msg = NoMsg /\ pipe = Empty
  /\ sig = FALSE /\ objs = {} /\ lines = <<>> /\ failed = {}

TestDone == life["main"] = "alive" /\ code["main"] = <<>> /\ cur \in DOMAIN Order

\* The next call of main().  A grandchild whose parent was killed shares
\* nothing with later tests and is let finish first.
NextTest ==
  /\ TestDone
  /\ life["grand"] # "alive"
  /\ cur' = cur + 1
  /\ code' = Entry(cur + 1) /\ effect' \in EffectsAt(cur + 1)
  /\ life' = NoLife /\ status' = NoSet /\ fds' = NoSet /\ bad' = NoSet
  /\ msg' = NoMsg /\ pipe' = Empty
  /\ sig' = FALSE /\ objs' = {} /\ lines' = <<>> /\ failed' = {}
  /\ UNCHANGED uid0

-----------------------------------------------------------------------------
(* One call of process p. *)

At(p, op) == life[p] = "alive" /\ code[p] # <<>> /\ Head(code[p]).op = op
I(p) == Head(code[p])
Rest(p) == Tail(code[p])
Goto(p, c) == code' = [code EXCEPT ![p] = c]
Advance(p) == Goto(p, Rest(p))
Fail(p, call) == Goto(p, I(p).fail) /\ failed' = failed \cup {call}

Dies(p, st) ==
  /\ Goto(p, <<>>)
  /\ life' = [life EXCEPT ![p] = "dead"]
  /\ status' = [status EXCEPT ![p] = st]
  /\ fds' = [fds EXCEPT ![p] = {}]

kernelVars == <<uid0, cur, effect>>

\* Calls that sleep until an earlier call's message or semaphore value is there.
Blocking == {"mq_receive", "msgrcv", "semop"}
Sleeps(p) == effect = "lost" /\ At(p, "try") /\ I(p).call \in Blocking

\* A call without an effect the model keeps.
TryCall(p) ==
  /\ At(p, "try") /\ ~Sleeps(p)
  /\ \/ Advance(p) /\ UNCHANGED failed
     \/ Fail(p, I(p).call)
  /\ UNCHANGED <<kernelVars, life, status, fds, msg, bad, pipe, sig, objs, lines>>

MakeObj(p) ==
  /\ At(p, "make")
  /\ \/ Advance(p) /\ objs' = objs \cup {I(p).obj} /\ UNCHANGED failed
     \/ Fail(p, I(p).obj) /\ UNCHANGED objs
  /\ UNCHANGED <<kernelVars, life, status, fds, msg, bad, pipe, sig, lines>>

DropObj(p) ==
  /\ At(p, "drop")
  /\ Advance(p)
  /\ objs' = objs \ {I(p).obj}
  /\ UNCHANGED <<kernelVars, life, status, fds, msg, bad, pipe, sig, histVars>>

MakePipe(p) ==
  /\ At(p, "pipe")
  /\ \/ /\ Advance(p)
        /\ fds' = [fds EXCEPT ![p] = @ \cup ({I(p).q} \X {"R", "W"})]
        /\ UNCHANGED failed
     \/ Fail(p, "pipe") /\ UNCHANGED fds
  /\ UNCHANGED <<kernelVars, life, status, msg, bad, pipe, sig, objs, lines>>

CloseFd(p) ==
  /\ At(p, "close")
  /\ Advance(p)
  /\ fds' = [fds EXCEPT ![p] = @ \ {I(p).fd}]
  /\ UNCHANGED <<kernelVars, life, status, msg, bad, pipe, sig, objs, histVars>>

ForkChild(p) ==
  /\ At(p, "fork")
  /\ \/ LET c == ChildOf[p] IN
        /\ code' = [code EXCEPT ![p] = Rest(p), ![c] = I(p).child]
        /\ life' = [life EXCEPT ![c] = "alive"]
        /\ status' = [status EXCEPT ![c] = {}]
        /\ fds' = [fds EXCEPT ![c] = fds[p]]
        /\ bad' = [bad EXCEPT ![c] = bad[p]]
        /\ UNCHANGED failed
     \/ Fail(p, "fork") /\ UNCHANGED <<life, status, fds, bad>>
  /\ UNCHANGED <<kernelVars, msg, pipe, sig, objs, lines>>

HasEnd(q, end) == \E p \in Proc : <<q, end>> \in fds[p]

\* shadow_checker_send_ok(), _err() and the release byte; SIGPIPE when the
\* last reader is gone.
SendMsg(p) ==
  /\ At(p, "send")
  /\ \/ /\ HasEnd(I(p).q, "R")
        /\ Advance(p)
        /\ \E m \in I(p).ms : pipe' = [pipe EXCEPT ![I(p).q] = Append(@, m)]
        /\ UNCHANGED <<life, status, fds, failed>>
     \/ /\ ~HasEnd(I(p).q, "R")
        /\ Dies(p, {"signal"})
        /\ failed' = failed \cup {"sigpipe"}
        /\ UNCHANGED pipe
  /\ UNCHANGED <<kernelVars, msg, bad, sig, objs, lines>>

\* shadow_checker_read_msg(): one read() takes all there is in the pipe.
RecvMsg(p) ==
  /\ At(p, "recv")
  /\ LET q == I(p).q IN
     \/ /\ pipe[q] # <<>>
        /\ Advance(p)
        /\ msg' = [msg EXCEPT ![p] = IF Len(pipe[q]) = 1 THEN pipe[q][1]
                                     ELSE "garbled"]
        /\ pipe' = [pipe EXCEPT ![q] = <<>>]
     \/ /\ pipe[q] = <<>> /\ ~HasEnd(q, "W")
        /\ Goto(p, I(p).none)
        /\ UNCHANGED <<msg, pipe>>
  /\ UNCHANGED <<kernelVars, life, status, fds, bad, sig, objs, histVars>>

\* shadow_checker_report()
ReportLine(p) ==
  /\ At(p, "report")
  /\ Advance(p)
  /\ lines' = Append(lines, I(p).res)
  /\ bad' = [bad EXCEPT ![p] = @ \cup ({I(p).res} \cap {"FAIL", "STUB"})]
  /\ UNCHANGED <<kernelVars, life, status, fds, msg, pipe, sig, objs, failed>>

Branch(p) ==
  /\ \/ At(p, "on") /\ Goto(p, IF msg[p] = I(p).m THEN I(p).then ELSE Rest(p))
     \/ At(p, "observe")
        /\ Goto(p, IF effect = I(p).e THEN I(p).then ELSE Rest(p))
     \/ At(p, "check")     \* while (!g_checker_got_signal) pause();
        /\ Goto(p, IF sig THEN Rest(p) ELSE <<Op("enter")>> \o code[p])
     \/ At(p, "enter") /\ Goto(p, <<Op("pause")>> \o Rest(p))
  /\ UNCHANGED <<kernelVars, life, status, fds, msg, bad, pipe, sig, objs, histVars>>

\* Mutant: the throwaway process returns its raw counter.
ReturnStatus_Count(p) == IF bad[p] # {} THEN {"count"} ELSE {}

\* The status of a child that ran to its end; run_as_uid1's child returns
\* whether it counted a FAIL or a STUB.
ReturnStatus(p) == IF Order[cur] = "user" /\ uid0 /\ p = "child" THEN bad[p] ELSE {}

\* _exit(), also by falling off the script.
ExitProc(p) ==
  /\ \/ At(p, "exit") /\ Dies(p, I(p).status)
     \/ /\ p \in Sub /\ life[p] = "alive" /\ code[p] = <<>>
        /\ Dies(p, ReturnStatus(p))
  /\ UNCHANGED <<kernelVars, msg, bad, pipe, sig, objs, histVars>>

Reaped(c) == life' = [life EXCEPT ![c] = "reaped"]

\* waitpid() in its uses: with its status ignored, for success, for a stop, and for
\* the counts of run_as_uid1's child.
WaitChild(p) ==
  /\ p \in DOMAIN ChildOf
  /\ LET c == ChildOf[p] IN
     \/ /\ At(p, "wait") /\ life[c] \in {"dead", "reaped"}     \* or ECHILD
        /\ Advance(p) /\ Reaped(c) /\ UNCHANGED bad
     \/ /\ At(p, "waitok") /\ life[c] = "dead"
        /\ Goto(p, IF status[c] = {} THEN Rest(p) ELSE I(p).fail)
        /\ Reaped(c) /\ UNCHANGED bad
     \/ /\ At(p, "waitstop") /\ life[c] = "stopped" /\ effect # "lost"   \* traced
        /\ Advance(p) /\ UNCHANGED <<life, bad>>
     \/ /\ At(p, "waitstop") /\ life[c] = "dead"
        /\ Goto(p, I(p).fail) /\ Reaped(c) /\ UNCHANGED bad
     \/ /\ At(p, "waitcounts") /\ life[c] = "dead"
        /\ Advance(p) /\ Reaped(c)
        /\ bad' = [bad EXCEPT ![p] = @ \cup (status[c] \ {"signal"})]
  /\ UNCHANGED <<kernelVars, status, fds, msg, pipe, sig, objs, histVars>>

\* raise(SIGSTOP) of the traced child, and PTRACE_CONT.
StopSelf(p) ==
  /\ At(p, "stop")
  /\ Advance(p)
  /\ life' = [life EXCEPT ![p] = "stopped"]
  /\ UNCHANGED <<kernelVars, status, fds, msg, bad, pipe, sig, objs, histVars>>

ContChild(p) ==
  /\ At(p, "cont")
  /\ \/ /\ life["child"] = "stopped" /\ Advance(p)
        /\ life' = [life EXCEPT !["child"] = "alive"] /\ UNCHANGED failed
     \/ Fail(p, "cont") /\ UNCHANGED life
  /\ UNCHANGED <<kernelVars, status, fds, msg, bad, pipe, sig, objs, lines>>

\* kill(grandchild, SIGUSR1).  The handler interrupts pause(), but a signal
\* that arrives before pause() is entered does not.
KillGrand(p) ==
  /\ At(p, "kill")
  /\ \/ /\ IF effect = "full" /\ life["grand"] = "alive"
           THEN /\ sig' = TRUE
                /\ code' = [code EXCEPT ![p] = Rest(p),
                                        !["grand"] = IF At("grand", "pause")
                                                     THEN Tail(@) ELSE @]
           ELSE Advance(p) /\ UNCHANGED sig
        /\ UNCHANGED failed
     \/ Fail(p, "kill") /\ UNCHANGED sig
  /\ UNCHANGED <<kernelVars, life, status, fds, msg, bad, pipe, objs, lines>>

\* kill(pid, SIGKILL) of the traced child, which may have been reaped already.
KillChild(p) ==
  /\ At(p, "sigkill")
  /\ IF life["child"] \in {"alive", "stopped"}
     THEN /\ code' = [code EXCEPT ![p] = Rest(p), !["child"] = <<>>]
          /\ life' = [life EXCEPT !["child"] = "dead"]
          /\ status' = [status EXCEPT !["child"] = {"signal"}]
     ELSE Advance(p) /\ UNCHANGED <<life, status>>
  /\ UNCHANGED <<kernelVars, fds, msg, bad, pipe, sig, objs, histVars>>

\* poll() on the pidfd with its timeout of two seconds.
PollPidfd(p) ==
  /\ At(p, "poll")
  /\ Advance(p)
  /\ \/ /\ life["child"] = "dead" /\ effect = "full"
        /\ msg' = [msg EXCEPT ![p] = "POLLIN"] /\ UNCHANGED failed
     \/ /\ life["child"] # "dead" \/ effect # "full"
        /\ msg' = [msg EXCEPT ![p] = "timeout"]
        /\ failed' = failed \cup {"timeout"}
  /\ UNCHANGED <<kernelVars, life, status, fds, bad, pipe, sig, objs, lines>>

Step(p) ==
  \/ TryCall(p) \/ MakeObj(p) \/ DropObj(p) \/ MakePipe(p) \/ CloseFd(p)
  \/ ForkChild(p) \/ SendMsg(p) \/ RecvMsg(p) \/ ReportLine(p) \/ Branch(p)
  \/ ExitProc(p) \/ WaitChild(p) \/ StopSelf(p) \/ ContChild(p)
  \/ KillGrand(p) \/ KillChild(p) \/ PollPidfd(p)

Finished == life["main"] = "dead" \/ cur \notin DOMAIN Order

\* The checker has ended, or waits for ever.
Stop == (Finished \/ Sleeps("main")) /\ UNCHANGED vars

KillMark == [child |-> "killchild", grand |-> "killgrand"]

\* A child is killed from outside (out of memory, an operator).
Killed(p) ==
  /\ life[p] \in {"alive", "stopped"}
  /\ Dies(p, {"signal"})
  /\ failed' = failed \cup {KillMark[p]}
  /\ UNCHANGED <<kernelVars, msg, bad, pipe, sig, objs, lines>>

Next ==
  \/ \E p \in Proc : Step(p)
  \/ \E p \in Sub : Killed(p)
  \/ NextTest
  \/ Stop

\* Every process that can run is scheduled in the end; nobody has to kill one.
Spec == Init /\ [][Next]_vars /\ \A p \in Proc : WF_vars(Step(p)) /\ WF_vars(NextTest)

-----------------------------------------------------------------------------
(* Properties. *)

Test == Order[cur]
HelperKilled == Test = "user" /\ uid0 /\ "killchild" \in failed

\* Every variable has its type.
TypeOK ==
  /\ uid0 \in BOOLEAN /\ cur \in 1..(Len(Order) + 1) /\ sig \in BOOLEAN
  /\ life \in [Proc -> {"none", "alive", "stopped", "dead", "reaped"}]
  /\ status \in [Proc -> Status]
  /\ fds \in [Proc -> SUBSET PipeEnd]
  /\ bad \in [Proc -> SUBSET {"FAIL", "STUB"}]
  /\ lines \in Seq(Result)

\* "prints one PASS/FAIL/STUB line per feature" (lkm4ctr_checker.c:24): a test
\* that returns to main() has printed exactly one line - two for a pid
\* namespace that was really entered - whichever call failed and whoever was
\* killed, except the throwaway process of run_as_uid1() itself.
OneVerdict ==
  TestDone /\ ~HelperKilled =>
    Len(lines) = IF Test = "pid" /\ lines[1] \in {"PASS", "STUB"} THEN 2 ELSE 1

\* Results travel as messages on byte streams without framing: a read never
\* meets two of them at once.
Framed == \A q \in {"r", "s"} : Len(pipe[q]) <= 1

\* On every path back to main() all pipe ends are closed and every System V
\* object, message queue and descriptor of the test is gone (the overlay
\* test's directories under /tmp excepted, see the README).
\* The child was waited for, unless the wait is what failed.
NothingLeft ==
  TestDone =>
    /\ fds["main"] = {} /\ objs \subseteq {"tmpdir"}
    /\ life["child"] \in {"none", "reaped"} \/ failed \cap {"wait4", "waitid"} # {}

\* A process writes into a pipe without readers only if the reader was killed:
\* no ordinary error path leaves a partner behind that dies of SIGPIPE.
NoSigpipe == "sigpipe" \in failed => "killchild" \in failed

\* The two together: the processes use their pipes in step.
PipesInStep == Framed /\ NoSigpipe

\* The observations a PASS does without: a /proc that cannot be listed, an id
\* or a hostname there is nothing to compare with, and the two tests whose PASS
\* is the success of their calls.
Unobserved ==
  \/ Test = "pid" /\ "opendir" \in failed
  \/ Test = "generic_ns" /\ "before" \in failed
  \/ Test = "uts" /\ {"before", "after"} \subseteq failed
  \/ Test \in {"overlay", "proc_ns_access"}

\* "PASS - the syscall succeeded AND a real, observable side effect proves
\* genuine isolation" (lkm4ctr_checker.c:26).  The code keeps to it but for the
\* named observations: every other PASS is printed only when the kernel did
\* isolate, and no call of the test but these and umount2() failed.
PassSound ==
  TestDone /\ lines # <<>> /\ (\A i \in 1..Len(lines) : lines[i] = "PASS") =>
    /\ effect = "full" \/ Unobserved
    /\ failed \subseteq {"opendir", "before", "after", "umount2", "killchild", "killgrand"}

\* ... and on a kernel that does everything right PASS is what is printed.
HealthyPass ==
  TestDone /\ failed = {} /\ effect = "full" =>
    \A i \in 1..Len(lines) : lines[i] = "PASS"

\* PASS is printed when, and only when, it is true.
VerdictRight == PassSound /\ HealthyPass

\* "the PASS/STUB/FAIL/SKIP outcome is round-tripped back ... so the final
\* summary counts stay accurate" (lkm4ctr_checker.c:566): what main() counted
\* is what was printed, also by the throwaway process.
CountsAccurate ==
  TestDone /\ ~HelperKilled => bad["main"] = ToSet(lines) \cap {"FAIL", "STUB"}

\* Each test is reported once and counted as reported.
Reported == OneVerdict /\ CountsAccurate

\* Nothing will come: a call of the test sleeps, or its child stopped without
\* being traced, and waitpid() does not report that.
Hangs ==
  \/ \E p \in Proc : Sleeps(p)
  \/ effect = "lost" /\ At("main", "waitstop") /\ life["child"] = "stopped"

\* Every test but pid_signal ends, whatever fails and whoever is killed: no
\* read and no wait blocks for ever, except mq_receive(), msgrcv(), semop() and
\* the wait for the traced child, on a kernel that lost what they wait for.
TestEnds ==
  \A i \in DOMAIN Order : Order[i] # "pid_signal" =>
    (cur = i ~> cur # i \/ life["main"] = "dead" \/ Hangs)

\* pid_signal prints its line when every call succeeds, the kernel delivers
\* the signal and nobody is killed.
SignalReported ==
  cur = 1 ~> lines # <<>> \/ failed # {} \/ effect # "full"
=============================================================================
