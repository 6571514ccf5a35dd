---------------------------- MODULE SecurityGroup ----------------------------
(***************************************************************************)
(* Security groups of src/aws-build/lib/AWSBuilder.py, shared by several   *)
(* build sessions of one controller host.  Each session constructs an      *)
(* AWSBuilder (locate the VPC and subnet, look up its group with           *)
(* find_security_group), then an AWSInstance, whose constructor calls      *)
(* ensure_security_group and launches the instance into builder.sec.  A    *)
(* caller may delete its group with delete_security_group once done.       *)
(*                                                                         *)
(* The provider keeps each group's VPC, name and ingress rules.  Names are *)
(* unique among the live groups of one VPC: create-security-group of a    *)
(* taken name fails, and delete-security-group fails while an instance    *)
(* uses the group.  describe-security-groups lists the groups of every    *)
(* VPC of the region.                                                      *)
(***************************************************************************)
EXTENDS Naturals, FiniteSets

CONSTANTS
    Sessions,       \* the concurrent builder sessions
    Vpcs,           \* the VPCs of the region
    GroupIds,       \* the group ids the provider can hand out
    AuthMayFail,    \* authorize-security-group-ingress can fail
    DeleteMayFail,  \* delete-security-group can fail for a transient reason
    BadRules,       \* a caller may pass an ingress rule missing a key
    ModesAgree      \* each session's builder and instance use one mode

ASSUME ConstantsAssumption ==
    /\ IsFiniteSet(Sessions) /\ Sessions # {}
    /\ IsFiniteSet(Vpcs) /\ Vpcs # {}
    /\ IsFiniteSet(GroupIds)
    /\ "none" \notin GroupIds /\ "garbled" \notin GroupIds
    /\ {AuthMayFail, DeleteMayFail, BadRules, ModesAgree} \subseteq BOOLEAN

(* '{type}-builder' for unsecure mode, SECURE_MODE_SG_NAME otherwise.      *)
Names == {"builder", "workers"}
NameFor(unsecure) == IF unsecure THEN "builder" ELSE "workers"

(* The single ingress rule each mode passes: port 22 from 0.0.0.0/0 in     *)
(* unsecure mode, from the master's IP_ADDR/32 in secure mode.             *)
Rules == {"world", "master"}
RuleFor(unsecure) == IF unsecure THEN "world" ELSE "master"

NoGroup == "none"

(* The text of two or more ids, one per line: no id of any group.          *)
Garbled == "garbled"

Pcs == {"locate", "find", "ensure", "auth", "launch", "run", "cleanup",
        "done", "failed"}
Errors == {"none", "locate", "describe", "duplicate", "rule", "launch"}

-----------------------------------------------------------------------------
VARIABLES
    group,     \* provider: group id -> [st, vpc, name, rules]
    pc,        \* where each session is
    sec,       \* builder.sec of each session (NoGroup for "" or None)
    vpc,       \* builder.vpc of each session
    bmode,     \* the unsecure argument of the session's AWSBuilder
    imode,     \* the unsecure argument of the session's AWSInstance
    goodRules, \* the ingress rules passed to ensure have every key
    launched,  \* the group the session's running instance is in
    created,   \* the group the session created (history)
    err        \* why the session failed (history)

vars == <<group, pc, sec, vpc, bmode, imode, goodRules, launched, created, err>>

GroupRec == [st : {"free", "live", "gone"}, vpc : Vpcs, name : Names,
             rules : SUBSET Rules]

TypeOK ==
    /\ group \in [GroupIds -> GroupRec]
    /\ pc \in [Sessions -> Pcs]
    /\ sec \in [Sessions -> GroupIds \cup {NoGroup, Garbled}]
    /\ vpc \in [Sessions -> Vpcs]
    /\ bmode \in [Sessions -> BOOLEAN]
    /\ imode \in [Sessions -> BOOLEAN]
    /\ goodRules \in [Sessions -> BOOLEAN]
    /\ launched \in [Sessions -> GroupIds \cup {NoGroup}]
    /\ created \in [Sessions -> GroupIds \cup {NoGroup}]
    /\ err \in [Sessions -> Errors]

LiveNamed(n) == {g \in GroupIds : group[g].st = "live" /\ group[g].name = n}

LiveNamedIn(n, v) == {g \in LiveNamed(n) : group[g].vpc = v}

(* The output of describe-security-groups for a name, after rstrip.       *)
Listed(n) ==
    CASE LiveNamed(n) = {} -> NoGroup
      [] Cardinality(LiveNamed(n)) = 1 -> CHOOSE g \in LiveNamed(n) : TRUE
      [] OTHER -> Garbled

InUse(g) == \E t \in Sessions : launched[t] = g

(* Groups left by earlier runs exist with their rule, one per name and   *)
(* VPC at most; every session has its own VPC, modes and rules.            *)
Init ==
    /\ \E pre \in SUBSET (Names \X Vpcs), ids \in [Names \X Vpcs -> GroupIds] :
         /\ \A m, n \in pre : ids[m] = ids[n] => m = n
         /\ group = [g \in GroupIds |->
                       IF \E p \in pre : ids[p] = g
                       THEN LET p == CHOOSE x \in pre : ids[x] = g IN
                            [st |-> "live", vpc |-> p[2], name |-> p[1],
                             rules |-> {RuleFor(p[1] = "builder")}]
                       ELSE [st |-> "free", vpc |-> CHOOSE v \in Vpcs : TRUE,
                             name |-> "builder", rules |-> {}]]
    /\ pc = [s \in Sessions |-> "locate"]
    /\ sec = [s \in Sessions |-> NoGroup]
    /\ vpc \in [Sessions -> Vpcs]
    /\ bmode \in [Sessions -> BOOLEAN]
    /\ imode \in [Sessions -> BOOLEAN]
    /\ ModesAgree => imode = bmode
    /\ goodRules \in [Sessions -> IF BadRules THEN BOOLEAN ELSE {TRUE}]
    /\ launched = [s \in Sessions |-> NoGroup]
    /\ created = [s \in Sessions |-> NoGroup]
    /\ err = [s \in Sessions |-> "none"]

Fail(s, e) ==
    /\ pc' = [pc EXCEPT ![s] = "failed"]
    /\ err' = [err EXCEPT ![s] = e]

Goto(s, p) == pc' = [pc EXCEPT ![s] = p] /\ UNCHANGED err

-----------------------------------------------------------------------------
(* delete-security-group through subprocess.call: the provider removes a  *)
(* live group no instance uses; any failure is ignored.                    *)
DeleteCall(g) ==
    \/ /\ group[g].st = "live"
       /\ ~InUse(g)
       /\ group' = [group EXCEPT ![g].st = "gone"]
    \/ /\ group[g].st # "live" \/ InUse(g) \/ DeleteMayFail
       /\ UNCHANGED group

(* AWSBuilder.__init__ up to find_security_group: find_vpc and find_subnet *)
(* raise on a failed describe, and a name with no match raises NameError.  *)
Locate(s) ==
    /\ pc[s] = "locate"
    /\ \/ Goto(s, "find")
       \/ Fail(s, "locate")
    /\ UNCHANGED <<group, sec, vpc, bmode, imode, goodRules, launched, created>>

(* Faulty variant of FindGroup: the empty describe output "" is kept as  *)
(* if it were an id, as a test "is None" instead of "not" would do.       *)
FindGroupRaw(s) ==
    /\ pc[s] = "find"
    /\ \/ /\ sec' = [sec EXCEPT ![s] =
                       IF LiveNamed(NameFor(bmode[s])) = {} THEN ""
                       ELSE Listed(NameFor(bmode[s]))]
          /\ Goto(s, "ensure")
       \/ /\ Fail(s, "describe")
          /\ UNCHANGED sec
    /\ UNCHANGED <<group, vpc, bmode, imode, goodRules, launched, created>>

(* find_security_group(unsecure): the ids of the live groups of any VPC  *)
(* with the mode's name, one per line; check_output raises on a failure.   *)
FindGroup(s) ==
    /\ pc[s] = "find"
    /\ \/ /\ sec' = [sec EXCEPT ![s] = Listed(NameFor(bmode[s]))]
          /\ Goto(s, "ensure")
       \/ /\ Fail(s, "describe")
          /\ UNCHANGED sec
    /\ UNCHANGED <<group, vpc, bmode, imode, goodRules, launched, created>>

(* ensure_security_group, called by AWSInstance.__init__ with the          *)
(* instance's mode: a non-empty self.sec is returned as it is; otherwise   *)
(* create-security-group (check_output) makes one with the mode's name in *)
(* builder.vpc, and fails when that name is taken there.                   *)
Ensure(s) ==
    /\ pc[s] = "ensure"
    /\ \/ /\ sec[s] # NoGroup
          /\ Goto(s, "launch")
          /\ UNCHANGED <<group, sec, created>>
       \/ /\ sec[s] = NoGroup
          /\ LiveNamedIn(NameFor(imode[s]), vpc[s]) # {}
          /\ Fail(s, "duplicate")
          /\ UNCHANGED <<group, sec, created>>
       \/ /\ sec[s] = NoGroup
          /\ LiveNamedIn(NameFor(imode[s]), vpc[s]) = {}
          /\ \E g \in GroupIds :
               /\ group[g].st = "free"
               /\ group' = [group EXCEPT ![g] =
                              [st |-> "live", vpc |-> vpc[s],
                               name |-> NameFor(imode[s]), rules |-> {}]]
               /\ sec' = [sec EXCEPT ![s] = g]
               /\ created' = [created EXCEPT ![s] = g]
          /\ Goto(s, "auth")
    /\ UNCHANGED <<vpc, bmode, imode, goodRules, launched>>

(* Faulty variant of Authorize: the rule is taken from the builder's mode. *)
AuthorizeBuilderMode(s) ==
    /\ pc[s] = "auth"
    /\ \/ /\ ~goodRules[s]
          /\ sec' = [sec EXCEPT ![s] = NoGroup]
          /\ DeleteCall(sec[s])
          /\ Fail(s, "rule")
       \/ /\ goodRules[s]
          /\ \/ /\ group[sec[s]].st = "live"
                /\ group' = [group EXCEPT ![sec[s]].rules =
                               @ \cup {RuleFor(bmode[s])}]
             \/ /\ AuthMayFail \/ group[sec[s]].st # "live"
                /\ UNCHANGED group
          /\ Goto(s, "launch")
          /\ UNCHANGED sec
    /\ UNCHANGED <<vpc, bmode, imode, goodRules, launched, created>>

(* The rule loop of ensure_security_group: a rule missing a key deletes   *)
(* the new group (delete_security_group also resets self.sec) and raises  *)
(* ValueError; otherwise authorize-security-group-ingress runs through    *)
(* subprocess.call and its failure is ignored.                            *)
Authorize(s) ==
    /\ pc[s] = "auth"
    /\ \/ /\ ~goodRules[s]
          /\ sec' = [sec EXCEPT ![s] = NoGroup]
          /\ DeleteCall(sec[s])
          /\ Fail(s, "rule")
       \/ /\ goodRules[s]
          /\ \/ /\ group[sec[s]].st = "live"
                /\ group' = [group EXCEPT ![sec[s]].rules =
                               @ \cup {RuleFor(imode[s])}]
             \/ /\ AuthMayFail \/ group[sec[s]].st # "live"
                /\ UNCHANGED group
          /\ Goto(s, "launch")
          /\ UNCHANGED sec
    /\ UNCHANGED <<vpc, bmode, imode, goodRules, launched, created>>

(* run-instances with --security-group-ids builder.sec and a subnet of     *)
(* builder.vpc: it fails unless sec is a live group of that VPC.           *)
Usable(s) ==
    /\ sec[s] \in GroupIds
    /\ group[sec[s]].st = "live"
    /\ group[sec[s]].vpc = vpc[s]

Launch(s) ==
    /\ pc[s] = "launch"
    /\ \/ /\ Usable(s)
          /\ launched' = [launched EXCEPT ![s] = sec[s]]
          /\ Goto(s, "run")
       \/ /\ ~Usable(s)
          /\ Fail(s, "launch")
          /\ UNCHANGED launched
    /\ UNCHANGED <<group, sec, vpc, bmode, imode, goodRules, created>>

(* The instance is terminated (the lifecycle of module AWSInstance).       *)
Finish(s) ==
    /\ pc[s] = "run"
    /\ launched' = [launched EXCEPT ![s] = NoGroup]
    /\ Goto(s, "cleanup")
    /\ UNCHANGED <<group, sec, vpc, bmode, imode, goodRules, created>>

(* The caller may then call delete_security_group(): the id defaults to    *)
(* self.sec, which is reset before the best-effort delete.                 *)
Cleanup(s) ==
    /\ pc[s] = "cleanup"
    /\ \/ /\ sec[s] # NoGroup
          /\ sec' = [sec EXCEPT ![s] = NoGroup]
          /\ DeleteCall(sec[s])
       \/ /\ UNCHANGED <<group, sec>>
    /\ Goto(s, "done")
    /\ UNCHANGED <<vpc, bmode, imode, goodRules, launched, created>>

Next ==
    \E s \in Sessions :
        \/ Locate(s) \/ FindGroup(s) \/ Ensure(s) \/ Authorize(s)
        \/ Launch(s) \/ Finish(s) \/ Cleanup(s)

Spec == Init /\ [][Next]_vars

-----------------------------------------------------------------------------
(* The rule the code authorizes always matches the group's name: the       *)
(* world-open rule never lands on the secure-mode workers group, nor the   *)
(* master-only rule on the builder group, whichever session creates it.    *)
GroupPostureMatchesName ==
    \A g \in GroupIds :
        group[g].st = "live" => group[g].rules \subseteq {RuleFor(group[g].name = "builder")}

(* spec 4.3: the instance runs in a group of its own ingress posture, so a *)
(* secure-mode worker is never open to the world.                          *)
PostureRespected ==
    \A s \in Sessions :
        launched[s] # NoGroup => group[launched[s]].name = NameFor(imode[s])

(* spec 4.2: concurrent sessions of one controller host share one group;   *)
(* none fails because another created the group first.                     *)
SessionsShareGroup == \A s \in Sessions : err[s] # "duplicate"

(* spec 4.1: the group a session looks up is resolved in its own VPC, so  *)
(* run-instances gets a group id it can use.                              *)
FoundGroupInScope ==
    \A s \in Sessions :
        sec[s] # NoGroup => sec[s] \in GroupIds /\ group[sec[s]].vpc = vpc[s]

=============================================================================
