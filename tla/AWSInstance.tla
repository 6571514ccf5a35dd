----------------------------- MODULE AWSInstance -----------------------------
(***************************************************************************)
(* Lifecycle of one build worker, class AWSInstance of                     *)
(* src/aws-build/lib/AWSBuilder.py, as driven by a caller that runs        *)
(*                                                                         *)
(*     with AWSInstance(...) as inst:                                      *)
(*         inst.wait_until_ready(); ...; inst.keep(b); inst.abandon()      *)
(*                                                                         *)
(* The process is single-threaded, but a signal may arrive between any two *)
(* steps.  Python then runs the installed handler on top of the            *)
(* interrupted code, so AWSInstance.handler -> terminate() can run inside  *)
(* another terminate().  The active terminate() calls are kept on a stack  *)
(* of frames; the main code is suspended while the stack is not empty.     *)
(*                                                                         *)
(* Data is abstracted to what the properties tell apart: the instance id,  *)
(* the address and the handlers are tokens, the provider keeps the state   *)
(* of the one instance, its volumes and its tags.                          *)
(***************************************************************************)
EXTENDS Naturals, Sequences

CONSTANTS
    SigOrder,     \* the tuple self.signals, in the order __enter__ walks it
    OrigAction,   \* what the handler saved by __enter__ does on a signal:
                  \* "raise" (KeyboardInterrupt) or "kill" (default SIGTERM)
    VolTries,     \* attempts of AWSBuilder.find_volumes (10 in the code)
    ListTries,    \* attempts of AWSBuilder.find_instances (10 in the code)
    Timeout,      \* the timeout argument of wait_until_ready (180 by default)
    NBoot,        \* remote bootstrap steps of wait_until_ready after the probe
    TermMayFail,  \* whether 'aws ec2 terminate-instances' can fail
    MaxSignals    \* bound on the number of signals delivered to the process

Signals == {SigOrder[i] : i \in 1..Len(SigOrder)}

ASSUME ConstantsAssumption ==
    /\ SigOrder \in Seq(Signals)
    /\ Len(SigOrder) >= 1
    /\ \A i, j \in 1..Len(SigOrder) : SigOrder[i] = SigOrder[j] => i = j
    /\ OrigAction \in [Signals -> {"raise", "kill"}]
    /\ VolTries \in Nat \ {0}
    /\ ListTries \in Nat \ {0}
    /\ Timeout \in Nat
    /\ NBoot \in Nat \ {0}
    /\ TermMayFail \in BOOLEAN
    /\ MaxSignals \in Nat

(* range(0, timeout, 10): the number of probes the readiness loop makes.   *)
NumProbes == (Timeout + 9) \div 10

-----------------------------------------------------------------------------
VARIABLES
    pc,            \* where the main code is (constructor, with-body, exit)
    stack,         \* control points of the active terminate() calls
    cloud,         \* provider state of the instance: "none", "running", "terminated"
    volAttached,   \* the provider has attached the EBS volume
    tagged,        \* create-tags has applied the Name/Type tags
    instance,      \* self.instance: "unset" (not assigned yet), "id", "none"
    ipv4,          \* self.IPv4: "unset" (attribute missing), "addr", "none"
    keepinstance,  \* self.keepinstance
    abandoned,     \* abandon() has been called (history)
    handlers,      \* the process's handler for each signal: "orig" or "guard"
    saved,         \* self.original_handlers; "none" for a missing key
    nEntered,      \* how many signals __enter__ has handled so far
    loopIdx,       \* index of the retry or step loop the main code is in
    termCalls,     \* terminate-instances requests sent (history)
    sigs,          \* signals delivered so far
    exitDone       \* __exit__'s terminate() returned normally (history)

vars == <<pc, stack, cloud, volAttached, tagged, instance, ipv4, keepinstance,
          abandoned, handlers, saved, nEntered, loopIdx, termCalls, sigs,
          exitDone>>

CtorPcs  == {"run", "vols", "novol", "tags", "list"}
ScopePcs == {"ready", "poll", "boot", "work"}
Pcs      == CtorPcs \cup ScopePcs \cup {"enter", "install", "exit", "end"}
FramePcs == {"check", "call", "wait", "clear", "restore"}

TypeOK ==
    /\ pc \in Pcs
    /\ stack \in Seq(FramePcs)
    /\ Len(stack) <= MaxSignals + 1
    /\ cloud \in {"none", "running", "terminated"}
    /\ volAttached \in BOOLEAN
    /\ tagged \in BOOLEAN
    /\ instance \in {"unset", "id", "none"}
    /\ ipv4 \in {"unset", "addr", "none"}
    /\ keepinstance \in BOOLEAN
    /\ abandoned \in BOOLEAN
    /\ handlers \in [Signals -> {"orig", "guard"}]
    /\ saved \in [Signals -> {"orig", "guard", "none"}]
    /\ nEntered \in 0..Len(SigOrder)
    /\ loopIdx \in Nat
    /\ termCalls \in Nat
    /\ sigs \in 0..MaxSignals
    /\ exitDone \in BOOLEAN

(* The caller's keep argument is either value; no handler is installed.    *)
Init ==
    /\ pc = "run"
    /\ stack = <<>>
    /\ cloud = "none"
    /\ volAttached = FALSE
    /\ tagged = FALSE
    /\ instance = "unset"
    /\ ipv4 = "unset"
    /\ keepinstance \in BOOLEAN
    /\ abandoned = FALSE
    /\ handlers = [s \in Signals |-> "orig"]
    /\ saved = [s \in Signals |-> "none"]
    /\ nEntered = 0
    /\ loopIdx = 0
    /\ termCalls = 0
    /\ sigs = 0
    /\ exitDone = FALSE

-----------------------------------------------------------------------------
(* An exception reaches the main code: every terminate() frame is unwound. *)
(* Inside the with-body, __exit__ runs terminate(); anywhere else (the     *)
(* constructor, __enter__, __exit__ itself) the script ends.               *)
Raise ==
    IF pc \in ScopePcs
    THEN pc' = "exit" /\ stack' = <<"check">>
    ELSE pc' = "end" /\ stack' = <<>>

(* The main code runs only while no terminate() frame is active.           *)
Running(p) == pc = p /\ stack = <<>>

(* ssh()/rsync() raise when self.instance is None and when self.IPv4 was   *)
(* never assigned; the remote command can only succeed on a live host      *)
(* whose address the object still holds.                                   *)
RemoteRaises == instance # "id" \/ ipv4 = "unset"
RemoteOk     == ipv4 = "addr" /\ cloud = "running"

Top == stack[Len(stack)]
SetTop(f) == stack' = [stack EXCEPT ![Len(stack)] = f]

-----------------------------------------------------------------------------
(***************************************************************************)
(* Constructor (AWSInstance.__init__), after the argument checks and       *)
(* ensure_security_group, which run before any instance exists.            *)
(***************************************************************************)

(* run-instances: check_output returns the new id or raises.               *)
RunInstances ==
    /\ Running("run")
    /\ \/ /\ cloud' = "running"
          /\ instance' = "id"
          /\ pc' = "vols"
          /\ loopIdx' = 0
          /\ UNCHANGED stack
       \/ /\ Raise
          /\ UNCHANGED <<cloud, instance, loopIdx>>
    /\ UNCHANGED <<volAttached, tagged, ipv4, keepinstance, abandoned, handlers,
                   saved, nEntered, termCalls, sigs, exitDone>>

(* The provider attaches the root volume at some time after the launch.    *)
AttachVolumes ==
    /\ cloud = "running"
    /\ ~volAttached
    /\ volAttached' = TRUE
    /\ UNCHANGED <<pc, stack, cloud, tagged, instance, ipv4, keepinstance,
                   abandoned, handlers, saved, nEntered, loopIdx, termCalls,
                   sigs, exitDone>>

(* One attempt of find_volumes: the describe call raises (re-raised on the *)
(* last attempt), lists the volume, or lists nothing (then the next        *)
(* attempt; after the last, __init__ calls self.terminate()).              *)
FindVolumes ==
    /\ Running("vols")
    /\ \/ /\ loopIdx = VolTries - 1
          /\ Raise
          /\ UNCHANGED loopIdx
       \/ /\ loopIdx < VolTries - 1
          /\ loopIdx' = loopIdx + 1
          /\ UNCHANGED <<pc, stack>>
       \/ /\ volAttached
          /\ pc' = "tags"
          /\ UNCHANGED <<stack, loopIdx>>
       \/ /\ ~volAttached
          /\ loopIdx = VolTries - 1
          /\ pc' = "novol"
          /\ stack' = <<"check">>
          /\ UNCHANGED loopIdx
    /\ UNCHANGED <<cloud, volAttached, tagged, instance, ipv4, keepinstance,
                   abandoned, handlers, saved, nEntered, termCalls, sigs,
                   exitDone>>

(* create-tags through subprocess.call: a failure is ignored.              *)
CreateTags ==
    /\ Running("tags")
    /\ tagged' \in BOOLEAN
    /\ pc' = "list"
    /\ loopIdx' = 0
    /\ UNCHANGED <<stack, cloud, volAttached, instance, ipv4, keepinstance,
                   abandoned, handlers, saved, nEntered, termCalls, sigs,
                   exitDone>>

(* One attempt of find_instances, then the loop of __init__ over its       *)
(* result: the listing keeps the rows whose Type tag is the builder's, so  *)
(* self.IPv4 is assigned only if the tags were applied.                    *)
FindInstances ==
    /\ Running("list")
    /\ \/ /\ loopIdx = ListTries - 1
          /\ Raise
          /\ UNCHANGED <<ipv4, loopIdx>>
       \/ /\ loopIdx < ListTries - 1
          /\ loopIdx' = loopIdx + 1
          /\ UNCHANGED <<pc, stack, ipv4>>
       \/ /\ ipv4' = IF tagged /\ instance = "id" THEN "addr" ELSE ipv4
          /\ pc' = "enter"
          /\ UNCHANGED <<stack, loopIdx>>
    /\ UNCHANGED <<cloud, volAttached, tagged, instance, keepinstance,
                   abandoned, handlers, saved, nEntered, termCalls, sigs,
                   exitDone>>

(* Line 479 of __enter__: the current handler of the next signal is saved *)
(* in self.original_handlers.                                              *)
EnterSave ==
    /\ Running("enter")
    /\ nEntered < Len(SigOrder)
    /\ saved' = [saved EXCEPT ![SigOrder[nEntered + 1]] =
                                 handlers[SigOrder[nEntered + 1]]]
    /\ pc' = "install"
    /\ UNCHANGED <<stack, cloud, volAttached, tagged, instance, ipv4,
                   keepinstance, abandoned, handlers, nEntered, loopIdx,
                   termCalls, sigs, exitDone>>

(* Line 480: signal.signal installs self.handler for that signal; the      *)
(* with-body starts after the last one.  A signal may arrive between the   *)
(* two lines.                                                              *)
EnterInstall ==
    /\ Running("install")
    /\ handlers' = [handlers EXCEPT ![SigOrder[nEntered + 1]] = "guard"]
    /\ nEntered' = nEntered + 1
    /\ pc' = IF nEntered + 1 = Len(SigOrder) THEN "ready" ELSE "enter"
    /\ UNCHANGED <<stack, cloud, volAttached, tagged, instance, ipv4,
                   keepinstance, abandoned, saved, loopIdx, termCalls, sigs,
                   exitDone>>

-----------------------------------------------------------------------------
(***************************************************************************)
(* wait_until_ready, called first in the with-body.                        *)
(***************************************************************************)

(* The terminated check, the key-permission check (chmod 0400, then stat)  *)
(* and 'aws ec2 wait instance-running' (subprocess.call, result ignored).  *)
WaitUntilReady ==
    /\ Running("ready")
    /\ \/ /\ instance = "id"
          /\ pc' = "poll"
          /\ loopIdx' = 0
          /\ UNCHANGED stack
       \/ /\ Raise
          /\ UNCHANGED loopIdx
    /\ UNCHANGED <<cloud, volAttached, tagged, instance, ipv4, keepinstance,
                   abandoned, handlers, saved, nEntered, termCalls, sigs,
                   exitDone>>

(* Faulty variant of Probe: the loop index wraps around instead of        *)
(* reaching the timeout, so failing probes repeat for ever.               *)
ProbeWrap ==
    /\ Running("poll")
    /\ \/ /\ loopIdx < NumProbes
          /\ RemoteRaises
          /\ Raise
          /\ UNCHANGED loopIdx
       \/ /\ loopIdx < NumProbes
          /\ ~RemoteRaises
          /\ RemoteOk
          /\ pc' = "boot"
          /\ loopIdx' = 0
          /\ UNCHANGED stack
       \/ /\ loopIdx < NumProbes
          /\ ~RemoteRaises
          /\ loopIdx' = (loopIdx + 1) % NumProbes
          /\ UNCHANGED <<pc, stack>>
    /\ UNCHANGED <<cloud, volAttached, tagged, instance, ipv4, keepinstance,
                   abandoned, handlers, saved, nEntered, termCalls, sigs,
                   exitDone>>

(* One iteration of the readiness loop (sleep 10, then ssh upcommand), or  *)
(* the check after it: ret is still non-zero when every probe failed, and  *)
(* -1 when range(0, timeout, 10) is empty.                                 *)
Probe ==
    /\ Running("poll")
    /\ \/ /\ loopIdx = NumProbes
          /\ Raise
          /\ UNCHANGED loopIdx
       \/ /\ loopIdx < NumProbes
          /\ RemoteRaises
          /\ Raise
          /\ UNCHANGED loopIdx
       \/ /\ loopIdx < NumProbes
          /\ ~RemoteRaises
          /\ RemoteOk
          /\ pc' = "boot"
          /\ loopIdx' = 0
          /\ UNCHANGED stack
       \/ /\ loopIdx < NumProbes
          /\ ~RemoteRaises
          /\ loopIdx' = loopIdx + 1
          /\ UNCHANGED <<pc, stack>>
    /\ UNCHANGED <<cloud, volAttached, tagged, instance, ipv4, keepinstance,
                   abandoned, handlers, saved, nEntered, termCalls, sigs,
                   exitDone>>

(* One bootstrap step (mkdir .ssh, rm id_rsa, packageinit, install rsync,  *)
(* rsync the key pair, write .ssh/config): a non-zero result, like the     *)
(* terminated check, raises ValueError.                                    *)
Bootstrap ==
    /\ Running("boot")
    /\ \/ /\ ~RemoteRaises
          /\ RemoteOk
          /\ loopIdx' = loopIdx + 1
          /\ pc' = IF loopIdx + 1 = NBoot THEN "work" ELSE "boot"
          /\ UNCHANGED stack
       \/ /\ Raise
          /\ UNCHANGED loopIdx
    /\ UNCHANGED <<cloud, volAttached, tagged, instance, ipv4, keepinstance,
                   abandoned, handlers, saved, nEntered, termCalls, sigs,
                   exitDone>>

-----------------------------------------------------------------------------
(***************************************************************************)
(* The caller's calls in the with-body after wait_until_ready returned.    *)
(***************************************************************************)

(* keep(keep)                                                              *)
SetKeep(b) ==
    /\ Running("work")
    /\ keepinstance' = b
    /\ UNCHANGED <<pc, stack, cloud, volAttached, tagged, instance, ipv4,
                   abandoned, handlers, saved, nEntered, loopIdx, termCalls,
                   sigs, exitDone>>

(* Faulty variant of Abandon: self.instance is kept.                       *)
AbandonKeepInstance ==
    /\ Running("work")
    /\ ipv4' = "none"
    /\ abandoned' = TRUE
    /\ UNCHANGED <<pc, stack, cloud, volAttached, tagged, instance,
                   keepinstance, handlers, saved, nEntered, loopIdx, termCalls,
                   sigs, exitDone>>

(* abandon(): clears self.sshkey, self.IPv4 and self.instance; no request *)
(* is sent, so a later terminate() skips the termination.                 *)
Abandon ==
    /\ Running("work")
    /\ ipv4' = "none"
    /\ instance' = "none"
    /\ abandoned' = TRUE
    /\ UNCHANGED <<pc, stack, cloud, volAttached, tagged,
                   keepinstance, handlers, saved, nEntered, loopIdx, termCalls,
                   sigs, exitDone>>

(* Faulty variant of ExitScope: __exit__ returns without terminate().     *)
ExitScopeNoTerminate ==
    /\ Running("work")
    /\ pc' = "end"
    /\ exitDone' = TRUE
    /\ UNCHANGED <<stack, cloud, volAttached, tagged, instance, ipv4,
                   keepinstance, abandoned, handlers, saved, nEntered, loopIdx,
                   termCalls, sigs>>

(* Leaving the with-body: __exit__ calls self.terminate().                 *)
ExitScope ==
    /\ Running("work")
    /\ pc' = "exit"
    /\ stack' = <<"check">>
    /\ UNCHANGED <<cloud, volAttached, tagged, instance, ipv4, keepinstance,
                   abandoned, handlers, saved, nEntered, loopIdx, termCalls,
                   sigs, exitDone>>

-----------------------------------------------------------------------------
(***************************************************************************)
(* terminate(), one step per statement of the innermost active call.       *)
(***************************************************************************)

(* Return from the innermost terminate(): the caller resumes; if it was    *)
(* the main code's own call, the constructor goes on to create-tags and    *)
(* __exit__ returns.                                                       *)
Return ==
    /\ stack' = SubSeq(stack, 1, Len(stack) - 1)
    /\ IF Len(stack) = 1 /\ pc \in {"novol", "exit"}
       THEN /\ pc' = IF pc = "novol" THEN "tags" ELSE "end"
            /\ exitDone' = (pc = "exit")
       ELSE UNCHANGED <<pc, exitDone>>

(* if self.instance and not self.keepinstance                              *)
TermCheck ==
    /\ stack # <<>>
    /\ Top = "check"
    /\ SetTop(IF instance = "id" /\ ~keepinstance THEN "call" ELSE "restore")
    /\ UNCHANGED <<pc, cloud, volAttached, tagged, instance, ipv4, keepinstance,
                   abandoned, handlers, saved, nEntered, loopIdx, termCalls,
                   sigs, exitDone>>

(* Faulty variant of TermCall: the fields are cleared before the request *)
(* is sent, so a failed request forgets a running instance.               *)
TermCallClearFirst ==
    /\ stack # <<>>
    /\ Top = "call"
    /\ instance' = "none"
    /\ ipv4' = "none"
    /\ \/ /\ instance = "id"
          /\ termCalls' = termCalls + 1
          /\ SetTop("wait")
          /\ UNCHANGED pc
       \/ /\ instance # "id"
          /\ Raise
          /\ UNCHANGED termCalls
    /\ UNCHANGED <<cloud, volAttached, tagged, keepinstance, abandoned,
                   handlers, saved, nEntered, loopIdx, sigs, exitDone>>

(* Lines 605-606: the command is built from the current self.instance and *)
(* check_output starts 'aws ec2 terminate-instances'.  A nested call that  *)
(* cleared self.instance since line 604 leaves None in the command, and    *)
(* subprocess raises TypeError.                                            *)
TermCall ==
    /\ stack # <<>>
    /\ Top = "call"
    /\ \/ /\ instance = "id"
          /\ termCalls' = termCalls + 1
          /\ SetTop("wait")
          /\ UNCHANGED pc
       \/ /\ instance # "id"
          /\ Raise
          /\ UNCHANGED termCalls
    /\ UNCHANGED <<cloud, volAttached, tagged, instance, ipv4, keepinstance,
                   abandoned, handlers, saved, nEntered, loopIdx, sigs,
                   exitDone>>

(* check_output returns: the provider accepted the request, or the         *)
(* request failed and CalledProcessError is raised.  While it waits, a     *)
(* signal may run a nested terminate() that sends its own request.        *)
TermWait ==
    /\ stack # <<>>
    /\ Top = "wait"
    /\ \/ /\ cloud' = "terminated"
          /\ SetTop("clear")
          /\ UNCHANGED pc
       \/ /\ TermMayFail
          /\ Raise
          /\ UNCHANGED cloud
    /\ UNCHANGED <<volAttached, tagged, instance, ipv4, keepinstance, abandoned,
                   handlers, saved, nEntered, loopIdx, termCalls, sigs,
                   exitDone>>

(* Faulty variant of TermClear: terminate() returns right after clearing  *)
(* the fields and never restores the handlers.                            *)
TermClearReturn ==
    /\ stack # <<>>
    /\ Top = "clear"
    /\ instance' = "none"
    /\ ipv4' = "none"
    /\ Return
    /\ UNCHANGED <<cloud, volAttached, tagged, keepinstance, abandoned,
                   handlers, saved, nEntered, loopIdx, termCalls, sigs>>

(* self.sshkey = None; self.IPv4 = None; self.instance = None              *)
TermClear ==
    /\ stack # <<>>
    /\ Top = "clear"
    /\ instance' = "none"
    /\ ipv4' = "none"
    /\ SetTop("restore")
    /\ UNCHANGED <<pc, cloud, volAttached, tagged, keepinstance, abandoned,
                   handlers, saved, nEntered, loopIdx, termCalls, sigs,
                   exitDone>>

(* Faulty variant of TermRestore: every signal gets its saved entry, a    *)
(* missing one included, instead of stopping at the first missing key.    *)
TermRestoreAll ==
    /\ stack # <<>>
    /\ Top = "restore"
    /\ handlers' = saved
    /\ Return
    /\ UNCHANGED <<cloud, volAttached, tagged, instance, ipv4, keepinstance,
                   abandoned, saved, nEntered, loopIdx, termCalls, sigs>>

(* for sig in self.signals: signal.signal(sig, self.original_handlers[sig])*)
(* __enter__ saves the signals in order, so the saved ones are a prefix:   *)
(* those are restored, and the first missing one raises KeyError.          *)
TermRestore ==
    /\ stack # <<>>
    /\ Top = "restore"
    /\ handlers' = [s \in Signals |->
                      IF saved[s] = "none" THEN handlers[s] ELSE saved[s]]
    /\ IF \E s \in Signals : saved[s] = "none"
       THEN Raise /\ UNCHANGED exitDone
       ELSE Return
    /\ UNCHANGED <<cloud, volAttached, tagged, instance, ipv4, keepinstance,
                   abandoned, saved, nEntered, loopIdx, termCalls, sigs>>

-----------------------------------------------------------------------------
(* A signal arrives: self.handler runs terminate() on top of whatever is   *)
(* running; a saved original handler raises KeyboardInterrupt or ends the  *)
(* process.  Inside the retry loops of find_volumes and find_instances the *)
(* bare except (lines 338 and 361) catches KeyboardInterrupt and retries,  *)
(* or re-raises it on the last attempt.                                    *)
Signal(s) ==
    /\ pc # "end"
    /\ sigs < MaxSignals
    /\ sigs' = sigs + 1
    /\ \/ /\ handlers[s] = "guard"
          /\ stack' = Append(stack, "check")
          /\ UNCHANGED <<pc, loopIdx>>
       \/ /\ handlers[s] = "orig"
          /\ OrigAction[s] = "kill"
          /\ pc' = "end"
          /\ stack' = <<>>
          /\ UNCHANGED loopIdx
       \/ /\ handlers[s] = "orig"
          /\ OrigAction[s] = "raise"
          /\ Raise
          /\ UNCHANGED loopIdx
       \/ /\ handlers[s] = "orig"
          /\ OrigAction[s] = "raise"
          /\ stack = <<>>
          /\ \/ pc = "vols" /\ loopIdx < VolTries - 1
             \/ pc = "list" /\ loopIdx < ListTries - 1
          /\ loopIdx' = loopIdx + 1
          /\ UNCHANGED <<pc, stack>>
    /\ UNCHANGED <<cloud, volAttached, tagged, instance, ipv4, keepinstance,
                   abandoned, handlers, saved, nEntered, termCalls, exitDone>>

-----------------------------------------------------------------------------
(* The steps of the process's own code, without the caller's choices.      *)
Internal ==
    \/ RunInstances \/ FindVolumes \/ CreateTags \/ FindInstances
    \/ EnterSave \/ EnterInstall
    \/ WaitUntilReady \/ Probe \/ Bootstrap
    \/ TermCheck \/ TermCall \/ TermWait \/ TermClear \/ TermRestore

Next ==
    \/ Internal
    \/ \E b \in BOOLEAN : SetKeep(b)
    \/ Abandon
    \/ ExitScope
    \/ AttachVolumes
    \/ \E s \in Signals : Signal(s)

Spec == Init /\ [][Next]_vars

(* The process keeps running its own code, and the caller leaves the       *)
(* with-body eventually; signals and the provider get no fairness.         *)
FairSpec == Spec /\ WF_vars(Internal) /\ WF_vars(ExitScope)

-----------------------------------------------------------------------------
(***************************************************************************)
(* Properties that hold.                                                   *)
(***************************************************************************)

(* terminate() forgets the instance only after the provider accepted its   *)
(* termination: however terminate() calls nest through the signal handler *)
(* and whichever request fails, self.instance is never None while the      *)
(* instance may still be running, unless abandon() let it go.              *)
ClearedMeansTerminated == (instance = "none" /\ ~abandoned) => cloud = "terminated"

(* When __exit__'s terminate() returns normally and keep is off, no        *)
(* instance is left running: neither a signal handled inside the body or  *)
(* inside __exit__, nor keep toggled in the body defeats the cleanup of   *)
(* the with-statement; only abandon() hands the instance over.            *)
ScopeExitReleases == (exitDone /\ ~keepinstance /\ ~abandoned) => cloud # "running"

(* spec 3: abandon() clears the identity without a termination request:   *)
(* once abandoned, no terminate() of __exit__ or of a signal handler      *)
(* sends terminate-instances.                                              *)
AbandonedNeverTerminated == [][abandoned => termCalls' = termCalls]_vars

(* The lifecycle refines AbstractInstance, with the provider's state,    *)
(* self.instance and abandon() as its variables: however terminate()      *)
(* calls nest and whichever request fails, the provider terminates only   *)
(* the instance the object holds, the object drops the id only after the  *)
(* termination was accepted or by abandon(), and nothing is launched      *)
(* twice or held again.                                                    *)
Abs == INSTANCE AbstractInstance
        WITH aCloud <- cloud, aHeld <- instance, aAbandoned <- abandoned

AbsSpec == Abs!Spec

(* The script always ends: every retry loop of the constructor and of      *)
(* wait_until_ready is bounded.                                            *)
Termination == <>(pc = "end")

-----------------------------------------------------------------------------
(***************************************************************************)
(* Properties the spec states and the code does not keep.                  *)
(***************************************************************************)

(* spec 1 and 4.5: however execution ends (normal exit, exception or       *)
(* signal), the instance is terminated unless it was marked keep or        *)
(* abandoned.                                                              *)
NoLeakAtEnd ==
    (pc = "end" /\ ~keepinstance /\ ~abandoned) => cloud # "running"

(* spec 3 and 4.5: terminate() restores the original handlers, so once   *)
(* it has released the instance and returned, a later SIGINT or SIGTERM   *)
(* takes its prior disposition and is not swallowed by self.handler       *)
(* (stated while the process is alive).  __enter__ saves (line 479) and   *)
(* installs (line 480) in two steps, and a signal between them breaks it. *)
SignalsRestoredAfterRelease ==
    (pc # "end" /\ instance = "none" /\ ~abandoned /\ stack = <<>>)
        => \A s \in Signals : handlers[s] = "orig"

(* spec 7, guard semantics: with keep off, a signal leads to exactly one  *)
(* termination call; no second terminate-instances request is sent for   *)
(* the one instance.                                                       *)
OneTerminationRequest == termCalls <= 1

(* spec 4.3: the constructor fails closed; it never leaves an untagged,    *)
(* partially provisioned instance running.                                 *)
FailClosed == (pc \notin CtorPcs /\ cloud = "running") => tagged

=============================================================================
