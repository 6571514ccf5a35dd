------------------------------- MODULE Locator -------------------------------
(***************************************************************************)
(* The resource locator of src/aws-build/lib/AWSBuilder.py: the AWSBuilder *)
(* constructor resolves the VPC and then the subnet by name with find_vpc *)
(* and find_subnet.  Each runs describe-* with --output text, splits the  *)
(* output into lines and each line at tabs, and returns the id of the     *)
(* first two-column line whose name column equals the name asked for.     *)
(* A resource without a Name tag is listed with the name "None".          *)
(***************************************************************************)
EXTENDS Naturals, Sequences

CONSTANTS
    Names,     \* the Name tags resources may carry
    VpcIds,    \* the VPC ids of the region
    SubnetIds, \* the subnet ids of the region
    MaxRows    \* the most resources of a kind

ASSUME ConstantsAssumption ==
    /\ "None" \notin Names /\ "" \notin Names
    /\ "null" \notin VpcIds \cup SubnetIds
    /\ MaxRows \in Nat

Untagged == "None"
NotFound == "null"

(* The sequences over S of length at most n (BoundedSeq of SequencesExt,  *)
(* written out here so that the proofs can use this module).               *)
SeqUpTo(S, n) == UNION {[1..m -> S] : m \in 0..n}

(* A described resource.  describe-subnets selects the subnets of         *)
(* self.vpc with Subnets[?VpcId==vpc]: what it lists is given per VPC.     *)
VpcRows == SeqUpTo([name : Names \cup {Untagged}, id : VpcIds], MaxRows)
SubnetRows == SeqUpTo([name : Names \cup {Untagged}, id : SubnetIds], MaxRows)

(* The index of the first two-column line whose first column is name,    *)
(* 0 if there is none: the line the loop returns on.                      *)
FirstMatch(lines, name) ==
    LET I == {i \in 1..Len(lines) : Len(lines[i]) = 2 /\ lines[i][1] = name}
    IN  IF I = {} THEN 0 ELSE CHOOSE i \in I : \A j \in I : i <= j

(* check_output(...).decode().split('\n') then split('\t') of each line:  *)
(* one line per resource and the empty line after the last newline.       *)
Lines(rows) == [i \in 1..Len(rows) |-> <<rows[i].name, rows[i].id>>] \o <<<<"">>>>

(* Faulty variant of FindByName: "return None" inside the loop, so the    *)
(* search stops at the first line that does not match.                    *)
FindByNameFirstOnly(lines, name) ==
    IF Len(lines[1]) = 2 /\ lines[1][1] = name THEN lines[1][2] ELSE NotFound

(* Faulty variant of FindByName: returns part[0], the name, not the id.   *)
FindByNameColumn0(lines, name) ==
    LET i == FirstMatch(lines, name)
    IN  IF i = 0 THEN NotFound ELSE lines[i][1]

(* The loop of find_vpc and find_subnet.                                   *)
FindByName(lines, name) ==
    LET i == FirstMatch(lines, name)
    IN  IF i = 0 THEN NotFound ELSE lines[i][2]

(* describe-subnets filtered by VpcId == self.vpc: a value that is no VPC *)
(* id selects nothing.                                                     *)
InVpc(rows, v) == IF v \in DOMAIN rows THEN rows[v] ELSE <<>>

-----------------------------------------------------------------------------
VARIABLES
    vpcs,      \* what describe-vpcs lists
    subnets,   \* what describe-subnets lists for each VPC
    vpcName,   \* the vpc argument
    subName,   \* the subnet argument
    vpc,       \* self.vpc
    subnet,    \* self.subnet
    outcome    \* "unset" before the constructor, then "ok" or "NameError"

vars == <<vpcs, subnets, vpcName, subName, vpc, subnet, outcome>>

TypeOK ==
    /\ vpcs \in VpcRows
    /\ subnets \in [VpcIds -> SubnetRows]
    /\ vpcName \in Names /\ subName \in Names
    /\ vpc \in VpcIds \cup {NotFound}
    /\ subnet \in SubnetIds \cup {NotFound}
    /\ outcome \in {"unset", "ok", "NameError"}

Init ==
    /\ vpcs \in VpcRows
    /\ subnets \in [VpcIds -> SubnetRows]
    /\ vpcName \in Names /\ subName \in Names
    /\ vpc = NotFound /\ subnet = NotFound
    /\ outcome = "unset"

(* AWSBuilder.__init__ up to find_security_group: a VPC or subnet that is *)
(* not found raises NameError.                                             *)
Construct ==
    /\ outcome = "unset"
    /\ LET v == FindByName(Lines(vpcs), vpcName)
           n == FindByName(Lines(InVpc(subnets, v)), subName)
       IN  /\ vpc' = v
           /\ \/ /\ v = NotFound
                 /\ outcome' = "NameError" /\ UNCHANGED subnet
              \/ /\ v # NotFound
                 /\ subnet' = n
                 /\ outcome' = IF n = NotFound THEN "NameError" ELSE "ok"
    /\ UNCHANGED <<vpcs, subnets, vpcName, subName>>

Next == Construct

Spec == Init /\ [][Next]_vars

-----------------------------------------------------------------------------
(* spec 4.1: the constructor succeeds exactly when the first listed VPC   *)
(* of that name holds a subnet of that name; the VPC and the subnet it    *)
(* keeps then carry those names, the subnet inside the VPC.                *)
LocatedIffNamed ==
    outcome # "unset" =>
        /\ (outcome = "ok") =
              \E i \in 1..Len(vpcs) :
                 /\ vpcs[i].name = vpcName
                 /\ \A j \in 1..i - 1 : vpcs[j].name # vpcName
                 /\ \E k \in 1..Len(subnets[vpcs[i].id]) :
                       subnets[vpcs[i].id][k].name = subName
        /\ outcome = "ok" =>
              \E i \in 1..Len(vpcs) :
                 /\ vpcs[i].name = vpcName /\ vpcs[i].id = vpc
                 /\ \E k \in 1..Len(subnets[vpc]) :
                       subnets[vpc][k].name = subName /\ subnets[vpc][k].id = subnet

=============================================================================
