------------------------- MODULE SecurityGroupProofs -------------------------
(***************************************************************************)
(* Proofs about the security groups of SecurityGroup, for any number of    *)
(* sessions, VPCs and group ids that satisfies ConstantsAssumption.        *)
(***************************************************************************)
EXTENDS SecurityGroup, TLAPS

(***************************************************************************)
(* GroupPostureMatchesName is not inductive on its own: Authorize adds the *)
(* rule of the session's instance mode to builder.sec, and that is the    *)
(* group's own rule only because the session created the group itself,   *)
(* with the name of that mode, just before.  The strengthening says so of *)
(* every session at "auth", and that a session at "run" or "cleanup"      *)
(* holds a group id.                                                       *)
(***************************************************************************)
AuthTarget(t) ==
    pc[t] = "auth" =>
        /\ sec[t] \in GroupIds
        /\ group[sec[t]].st # "free"
        /\ group[sec[t]].name = NameFor(imode[t])

RunTarget(t) == pc[t] \in {"run", "cleanup"} => sec[t] \in GroupIds

Targets == \A t \in Sessions : AuthTarget(t) /\ RunTarget(t)

IInv == TypeOK /\ GroupPostureMatchesName /\ Targets

(* A step keeps the VPC and the name of every group in use, and never     *)
(* hands such a group out again.                                           *)
GroupStable ==
    \A g \in GroupIds :
        group[g].st # "free" =>
            /\ group'[g].st # "free"
            /\ group'[g].name = group[g].name

-----------------------------------------------------------------------------
(* The rule of a mode is the rule of the group name of that mode.          *)
LEMMA RuleOfName ==
    ASSUME NEW u \in BOOLEAN
    PROVE  RuleFor(NameFor(u) = "builder") = RuleFor(u)
BY DEF RuleFor, NameFor

(* The lookup returns an id, no group, or the garbled text.                *)
LEMMA ListedType ==
    ASSUME NEW n
    PROVE  Listed(n) \in GroupIds \cup {NoGroup, Garbled}
<1>1. CASE LiveNamed(n) = {}
  BY <1>1 DEF Listed
<1>2. CASE LiveNamed(n) # {} /\ Cardinality(LiveNamed(n)) = 1
  <2>1. (CHOOSE g \in LiveNamed(n) : TRUE) \in GroupIds
    BY <1>2 DEF LiveNamed
  <2>2. QED
    BY <1>2, <2>1 DEF Listed
<1>3. CASE LiveNamed(n) # {} /\ Cardinality(LiveNamed(n)) # 1
  BY <1>3 DEF Listed
<1>4. QED
  BY <1>1, <1>2, <1>3

(* delete-security-group keeps the groups well typed and stable, and the  *)
(* posture of every live group.                                            *)
LEMMA DeleteCallOK ==
    ASSUME TypeOK, GroupPostureMatchesName, NEW g \in GroupIds, DeleteCall(g)
    PROVE  /\ group' \in [GroupIds -> GroupRec]
           /\ GroupPostureMatchesName'
           /\ GroupStable
<1>1. CASE group' = [group EXCEPT ![g].st = "gone"]
  <2>1. group' \in [GroupIds -> GroupRec]
    BY <1>1 DEF TypeOK, GroupRec
  <2>2. GroupPostureMatchesName'
    BY <1>1 DEF TypeOK, GroupPostureMatchesName
  <2>3. GroupStable
    BY <1>1 DEF TypeOK, GroupStable
  <2>4. QED
    BY <2>1, <2>2, <2>3
<1>2. CASE UNCHANGED group
  BY <1>2 DEF TypeOK, GroupPostureMatchesName, GroupStable
<1>3. QED
  BY <1>1, <1>2 DEF DeleteCall

(* A session whose pc, builder.sec and modes a step leaves alone keeps    *)
(* its targets when the groups are stable.                                 *)
LEMMA TargetKept ==
    ASSUME TypeOK, NEW t \in Sessions, AuthTarget(t), RunTarget(t),
           GroupStable, pc'[t] = pc[t], sec'[t] = sec[t], imode' = imode
    PROVE  AuthTarget(t)' /\ RunTarget(t)'
BY DEF AuthTarget, RunTarget, GroupStable

-----------------------------------------------------------------------------
(* The strengthened invariant holds initially.                             *)
LEMMA InitIInv == Init => IInv
<1> SUFFICES ASSUME Init PROVE IInv
  OBVIOUS
<1>1. PICK pre \in SUBSET (Names \X Vpcs), ids \in [Names \X Vpcs -> GroupIds] :
         /\ \A m, n \in pre : ids[m] = ids[n] => m = n
         /\ group = [g \in GroupIds |->
                       IF \E p \in pre : ids[p] = g
                       THEN LET p == CHOOSE x \in pre : ids[x] = g IN
                            [st |-> "live", vpc |-> p[2], name |-> p[1],
                             rules |-> {RuleFor(p[1] = "builder")}]
                       ELSE [st |-> "free", vpc |-> CHOOSE v \in Vpcs : TRUE,
                             name |-> "builder", rules |-> {}]]
  BY DEF Init
<1>2. ASSUME NEW g \in GroupIds
      PROVE  /\ group[g] \in GroupRec
             /\ group[g].st = "live" =>
                  group[g].rules \subseteq {RuleFor(group[g].name = "builder")}
  <2>1. CASE \E p \in pre : ids[p] = g
    <3> DEFINE p == CHOOSE x \in pre : ids[x] = g
    <3>1. p \in Names \X Vpcs
      BY <2>1
    <3>2. group[g] = [st |-> "live", vpc |-> p[2], name |-> p[1],
                      rules |-> {RuleFor(p[1] = "builder")}]
      BY <1>1, <2>1
    <3>3. RuleFor(p[1] = "builder") \in Rules
      BY DEF RuleFor, Rules
    <3>4. QED
      BY <3>1, <3>2, <3>3 DEF GroupRec
  <2>2. CASE ~\E p \in pre : ids[p] = g
    <3>1. group[g] = [st |-> "free", vpc |-> CHOOSE v \in Vpcs : TRUE,
                      name |-> "builder", rules |-> {}]
      BY <1>1, <2>2
    <3>2. (CHOOSE v \in Vpcs : TRUE) \in Vpcs
      BY ConstantsAssumption
    <3>3. QED
      BY <3>1, <3>2 DEF GroupRec, Names
  <2>3. QED
    BY <2>1, <2>2
<1>3. group \in [GroupIds -> GroupRec]
  BY <1>1, <1>2
<1>4. TypeOK
  BY <1>3 DEF Init, TypeOK, Pcs, Errors
<1>5. GroupPostureMatchesName
  BY <1>2 DEF GroupPostureMatchesName
<1>6. Targets
  BY DEF Init, Targets, AuthTarget, RunTarget
<1>7. QED
  BY <1>4, <1>5, <1>6 DEF IInv


(* Every step of Next keeps the strengthened invariant.                    *)
LEMMA NextIInv == IInv /\ [Next]_vars => IInv'
<1> SUFFICES ASSUME IInv, [Next]_vars PROVE IInv'
  OBVIOUS
<1>0. /\ TypeOK /\ GroupPostureMatchesName
      /\ \A t \in Sessions : AuthTarget(t) /\ RunTarget(t)
  BY DEF IInv, Targets
<1>1. ASSUME NEW s \in Sessions, Locate(s) PROVE IInv'
  <2>1. TypeOK'
    BY <1>0, <1>1 DEF Locate, Goto, Fail, TypeOK, Pcs, Errors
  <2>2. GroupPostureMatchesName'
    BY <1>0, <1>1 DEF Locate, GroupPostureMatchesName
  <2>3. Targets'
    BY <1>0, <1>1 DEF Locate, Goto, Fail, TypeOK, Targets, AuthTarget, RunTarget
  <2>4. QED
    BY <2>1, <2>2, <2>3 DEF IInv
<1>2. ASSUME NEW s \in Sessions, FindGroup(s) PROVE IInv'
  <2>1. Listed(NameFor(bmode[s])) \in GroupIds \cup {NoGroup, Garbled}
    BY ListedType
  <2>2. TypeOK'
    BY <1>0, <1>2, <2>1 DEF FindGroup, Goto, Fail, TypeOK, Pcs, Errors
  <2>3. GroupPostureMatchesName'
    BY <1>0, <1>2 DEF FindGroup, GroupPostureMatchesName
  <2>4. Targets'
    BY <1>0, <1>2 DEF FindGroup, Goto, Fail, TypeOK, Targets, AuthTarget,
                      RunTarget
  <2>5. QED
    BY <2>2, <2>3, <2>4 DEF IInv
<1>3. ASSUME NEW s \in Sessions, Ensure(s) PROVE IInv'
  <2>1. CASE /\ sec[s] # NoGroup /\ Goto(s, "launch")
             /\ UNCHANGED <<group, sec, created>>
    BY <1>0, <1>3, <2>1 DEF Ensure, Goto, TypeOK, Pcs, GroupPostureMatchesName,
                            IInv, Targets, AuthTarget, RunTarget
  <2>2. CASE /\ Fail(s, "duplicate")
             /\ UNCHANGED <<group, sec, created>>
    BY <1>0, <1>3, <2>2 DEF Ensure, Fail, TypeOK, Pcs, Errors,
                            GroupPostureMatchesName, IInv, Targets, AuthTarget,
                            RunTarget
  <2>3. CASE /\ \E g \in GroupIds :
                  /\ group[g].st = "free"
                  /\ group' = [group EXCEPT ![g] =
                                 [st |-> "live", vpc |-> vpc[s],
                                  name |-> NameFor(imode[s]), rules |-> {}]]
                  /\ sec' = [sec EXCEPT ![s] = g]
                  /\ created' = [created EXCEPT ![s] = g]
             /\ Goto(s, "auth")
    <3>1. PICK g \in GroupIds :
                  /\ group[g].st = "free"
                  /\ group' = [group EXCEPT ![g] =
                                 [st |-> "live", vpc |-> vpc[s],
                                  name |-> NameFor(imode[s]), rules |-> {}]]
                  /\ sec' = [sec EXCEPT ![s] = g]
                  /\ created' = [created EXCEPT ![s] = g]
      BY <2>3
    <3>2. UNCHANGED <<vpc, bmode, imode, goodRules, launched>>
      BY <1>3 DEF Ensure
    <3>3. NameFor(imode[s]) \in Names
      BY <1>0 DEF TypeOK, NameFor, Names
    <3>4. TypeOK'
      BY <1>0, <2>3, <3>1, <3>2, <3>3 DEF Goto, TypeOK, GroupRec, Pcs
    <3>5. GroupPostureMatchesName'
      BY <1>0, <3>1 DEF TypeOK, GroupPostureMatchesName
    <3>6. GroupStable
      BY <1>0, <3>1 DEF TypeOK, GroupStable
    <3>7. AuthTarget(s)' /\ RunTarget(s)'
      BY <1>0, <2>3, <3>1, <3>2 DEF Goto, TypeOK, AuthTarget, RunTarget
    <3>8. ASSUME NEW t \in Sessions, t # s PROVE AuthTarget(t)' /\ RunTarget(t)'
      BY <1>0, <2>3, <3>1, <3>2, <3>6, <3>8, TargetKept DEF Goto, TypeOK
    <3>9. QED
      BY <3>4, <3>5, <3>7, <3>8 DEF IInv, Targets
  <2>4. QED
    BY <1>3, <2>1, <2>2, <2>3, Zenon DEF Ensure
<1>4. ASSUME NEW s \in Sessions, Authorize(s) PROVE IInv'
  <2>0. /\ sec[s] \in GroupIds /\ group[sec[s]].st # "free"
        /\ group[sec[s]].name = NameFor(imode[s])
        /\ UNCHANGED <<vpc, bmode, imode, goodRules, launched, created>>
    BY <1>0, <1>4 DEF Authorize, AuthTarget
  <2>1. CASE /\ ~goodRules[s]
             /\ sec' = [sec EXCEPT ![s] = NoGroup]
             /\ DeleteCall(sec[s])
             /\ Fail(s, "rule")
    <3>1. /\ group' \in [GroupIds -> GroupRec]
          /\ GroupPostureMatchesName'
          /\ GroupStable
      BY <1>0, <2>0, <2>1, DeleteCallOK
    <3>2. TypeOK'
      BY <1>0, <2>0, <2>1, <3>1 DEF Fail, TypeOK, Pcs, Errors
    <3>3. AuthTarget(s)' /\ RunTarget(s)'
      BY <1>0, <2>1 DEF Fail, TypeOK, AuthTarget, RunTarget
    <3>4. ASSUME NEW t \in Sessions, t # s PROVE AuthTarget(t)' /\ RunTarget(t)'
      BY <1>0, <2>0, <2>1, <3>1, <3>4, TargetKept DEF Fail, TypeOK
    <3>5. QED
      BY <3>1, <3>2, <3>3, <3>4 DEF IInv, Targets
  <2>2. CASE /\ goodRules[s]
             /\ group[sec[s]].st = "live"
             /\ group' = [group EXCEPT ![sec[s]].rules = @ \cup {RuleFor(imode[s])}]
             /\ Goto(s, "launch")
             /\ UNCHANGED sec
    <3>1. RuleFor(imode[s]) \in Rules
      BY DEF RuleFor, Rules
    <3>2. group' \in [GroupIds -> GroupRec]
      BY <1>0, <2>0, <2>2, <3>1 DEF TypeOK, GroupRec
    <3>3. TypeOK'
      BY <1>0, <2>0, <2>2, <3>2 DEF Goto, TypeOK, Pcs
    <3>4. RuleFor(group[sec[s]].name = "builder") = RuleFor(imode[s])
      BY <1>0, <2>0, RuleOfName DEF TypeOK
    <3>5. GroupPostureMatchesName'
      BY <1>0, <2>0, <2>2, <3>4 DEF TypeOK, GroupPostureMatchesName
    <3>6. GroupStable
      BY <1>0, <2>0, <2>2 DEF TypeOK, GroupStable
    <3>7. AuthTarget(s)' /\ RunTarget(s)'
      BY <1>0, <2>2 DEF Goto, TypeOK, AuthTarget, RunTarget
    <3>8. ASSUME NEW t \in Sessions, t # s PROVE AuthTarget(t)' /\ RunTarget(t)'
      BY <1>0, <2>0, <2>2, <3>6, <3>8, TargetKept DEF Goto, TypeOK
    <3>9. QED
      BY <3>3, <3>5, <3>7, <3>8 DEF IInv, Targets
  <2>3. CASE /\ goodRules[s]
             /\ UNCHANGED group
             /\ Goto(s, "launch")
             /\ UNCHANGED sec
    <3>1. TypeOK'
      BY <1>0, <2>0, <2>3 DEF Goto, TypeOK, Pcs
    <3>2. GroupPostureMatchesName'
      BY <1>0, <2>3 DEF GroupPostureMatchesName
    <3>3. Targets'
      BY <1>0, <2>0, <2>3 DEF Goto, TypeOK, Targets, AuthTarget, RunTarget
    <3>4. QED
      BY <3>1, <3>2, <3>3 DEF IInv
  <2>4. QED
    BY <1>4, <2>1, <2>2, <2>3, Zenon DEF Authorize
<1>5. ASSUME NEW s \in Sessions, Launch(s) PROVE IInv'
  <2>1. TypeOK'
    BY <1>0, <1>5 DEF Launch, Usable, Goto, Fail, TypeOK, Pcs, Errors
  <2>2. GroupPostureMatchesName'
    BY <1>0, <1>5 DEF Launch, GroupPostureMatchesName
  <2>3. Targets'
    BY <1>0, <1>5 DEF Launch, Usable, Goto, Fail, TypeOK, Targets, AuthTarget,
                      RunTarget
  <2>4. QED
    BY <2>1, <2>2, <2>3 DEF IInv
<1>6. ASSUME NEW s \in Sessions, Finish(s) PROVE IInv'
  <2>1. TypeOK'
    BY <1>0, <1>6 DEF Finish, Goto, TypeOK, Pcs
  <2>2. GroupPostureMatchesName'
    BY <1>0, <1>6 DEF Finish, GroupPostureMatchesName
  <2>3. Targets'
    BY <1>0, <1>6 DEF Finish, Goto, TypeOK, Targets, AuthTarget, RunTarget
  <2>4. QED
    BY <2>1, <2>2, <2>3 DEF IInv
<1>7. ASSUME NEW s \in Sessions, Cleanup(s) PROVE IInv'
  <2>0. UNCHANGED <<vpc, bmode, imode, goodRules, launched, created>>
        /\ Goto(s, "done")
    BY <1>7 DEF Cleanup
  <2>1. CASE /\ sec[s] # NoGroup
             /\ sec' = [sec EXCEPT ![s] = NoGroup]
             /\ DeleteCall(sec[s])
    <3>1. sec[s] \in GroupIds
      BY <1>0, <1>7 DEF Cleanup, RunTarget
    <3>2. /\ group' \in [GroupIds -> GroupRec]
          /\ GroupPostureMatchesName'
          /\ GroupStable
      BY <1>0, <2>1, <3>1, DeleteCallOK
    <3>3. TypeOK'
      BY <1>0, <2>0, <2>1, <3>2 DEF Goto, TypeOK, Pcs
    <3>4. AuthTarget(s)' /\ RunTarget(s)'
      BY <1>0, <2>0 DEF Goto, TypeOK, AuthTarget, RunTarget
    <3>5. ASSUME NEW t \in Sessions, t # s PROVE AuthTarget(t)' /\ RunTarget(t)'
      BY <1>0, <2>0, <2>1, <3>2, <3>5, TargetKept DEF Goto, TypeOK
    <3>6. QED
      BY <3>2, <3>3, <3>4, <3>5 DEF IInv, Targets
  <2>2. CASE UNCHANGED <<group, sec>>
    <3>1. TypeOK'
      BY <1>0, <2>0, <2>2 DEF Goto, TypeOK, Pcs
    <3>2. GroupPostureMatchesName'
      BY <1>0, <2>2 DEF GroupPostureMatchesName
    <3>3. Targets'
      BY <1>0, <2>0, <2>2 DEF Goto, TypeOK, Targets, AuthTarget, RunTarget
    <3>4. QED
      BY <3>1, <3>2, <3>3 DEF IInv
  <2>3. QED
    BY <1>7, <2>1, <2>2, Zenon DEF Cleanup
<1>8. CASE UNCHANGED vars
  BY <1>0, <1>8 DEF vars, IInv, TypeOK, GroupPostureMatchesName, Targets,
                    AuthTarget, RunTarget, LiveNamed, InUse
<1>99. QED
  BY <1>1, <1>2, <1>3, <1>4, <1>5, <1>6, <1>7, <1>8 DEF Next

(* The rule ensure_security_group authorizes always matches the group's   *)
(* name, for any number of sessions, VPCs and group ids and whichever     *)
(* provider call fails: the world-open rule never lands on the secure     *)
(* workers group, nor the master-only rule on the builder group.          *)
THEOREM PostureMatchesNameHolds == Spec => []GroupPostureMatchesName
<1>1. Init => IInv
  BY InitIInv
<1>2. IInv /\ [Next]_vars => IInv'
  BY NextIInv
<1>3. IInv => GroupPostureMatchesName
  BY DEF IInv
<1>4. QED
  BY <1>1, <1>2, <1>3, PTL DEF Spec

(* The state of the sessions and of the provider's groups keeps its type. *)
THEOREM SGTypeCorrect == Spec => []TypeOK
<1>1. IInv => TypeOK
  BY DEF IInv
<1>2. QED
  BY <1>1, InitIInv, NextIInv, PTL DEF Spec

=============================================================================
