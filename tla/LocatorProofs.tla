----------------------------- MODULE LocatorProofs -----------------------------
(***************************************************************************)
(* Proofs about the resource locator: find_vpc and find_subnet return the  *)
(* id of the first two-column line that names the resource, and the       *)
(* AWSBuilder constructor therefore succeeds exactly when the first VPC of *)
(* the requested name holds a subnet of the requested name.                *)
(***************************************************************************)
EXTENDS Locator, SequenceTheorems, WellFoundedInduction, TLAPS

(* The indices of the rows that carry the name asked for.                  *)
Match(rows, name) == {i \in 1..Len(rows) : rows[i].name = name}

(* The rows a describe call lists, with their ids drawn from Ids.          *)
Rows(Ids) == Seq([name : Names \cup {Untagged}, id : Ids])

-----------------------------------------------------------------------------
(* A non-empty set of naturals has a least element.                        *)
LEMMA LeastExists ==
    ASSUME NEW T \in SUBSET Nat, T # {}
    PROVE  \E x \in T : \A y \in T : x <= y
<1>1. PICK x \in T : \A y \in T : ~(<<y, x>> \in OpToRel(<, Nat))
  BY NatLessThanWellFounded, WFMin
<1>2. \A y \in T : ~(y < x)
  BY <1>1 DEF OpToRel
<1>3. QED
  BY <1>2

(* A function on 1..n is a sequence of length n.                           *)
LEMMA FunSeq ==
    ASSUME NEW S, NEW n \in Nat, NEW f \in [1..n -> S]
    PROVE  f \in Seq(S) /\ Len(f) = n
BY SMT

(* A listing of at most MaxRows resources is a sequence of resources.      *)
LEMMA SeqUpToSeq ==
    ASSUME NEW S, NEW n \in Nat
    PROVE  SeqUpTo(S, n) \subseteq Seq(S)
<1> SUFFICES ASSUME NEW s \in SeqUpTo(S, n) PROVE s \in Seq(S)
  OBVIOUS
<1>1. PICK m \in 0..n : s \in [1..m -> S]
  BY DEF SeqUpTo
<1>2. m \in Nat
  OBVIOUS
<1>3. QED
  BY <1>1, <1>2, FunSeq

(* Appending one entry to a sequence.                                      *)
LEMMA CatOne ==
    ASSUME NEW U, NEW s \in Seq(U), NEW e \in U
    PROVE  /\ Len(s \o <<e>>) = Len(s) + 1
           /\ (s \o <<e>>)[Len(s) + 1] = e
           /\ \A i \in 1..Len(s) : (s \o <<e>>)[i] = s[i]
OBVIOUS

(* The lines of check_output: one "name<tab>id" line per row, then the     *)
(* empty line after the last newline.                                      *)
LEMMA LinesShape ==
    ASSUME NEW Ids, NEW rows \in Rows(Ids)
    PROVE  /\ Len(Lines(rows)) = Len(rows) + 1
           /\ \A i \in 1..Len(rows) :
                 Lines(rows)[i] = <<rows[i].name, rows[i].id>>
           /\ Lines(rows)[Len(rows) + 1] = <<"">>
<1> DEFINE body == [i \in 1..Len(rows) |-> <<rows[i].name, rows[i].id>>]
<1> DEFINE last == <<"">>
<1> DEFINE U == {body[i] : i \in 1..Len(rows)} \cup {last}
<1> HIDE DEF body, last, U
<1>1. Len(rows) \in Nat
  BY LenProperties DEF Rows
<1>2. body \in Seq(U) /\ Len(body) = Len(rows)
  <2>1. body \in [1..Len(rows) -> U]
    BY DEF body, U
  <2>2. QED
    BY <1>1, <2>1, FunSeq
<1>3. last \in U
  BY DEF U
<1>4. /\ Len(body \o <<last>>) = Len(body) + 1
      /\ (body \o <<last>>)[Len(body) + 1] = last
      /\ \A i \in 1..Len(body) : (body \o <<last>>)[i] = body[i]
  BY <1>2, <1>3, CatOne
<1>5. Lines(rows) = body \o <<last>>
  BY DEF Lines, body, last
<1>6. QED
  BY <1>2, <1>4, <1>5 DEF body, last

(* The two columns of a line split at its tab.                             *)
LEMMA Pair ==
    ASSUME NEW a, NEW b
    PROVE  Len(<<a, b>>) = 2 /\ <<a, b>>[1] = a /\ <<a, b>>[2] = b
OBVIOUS

(* The lines find_vpc and find_subnet accept for a name, two columns with  *)
(* that name first, are the rows that carry the name: the empty last line *)
(* has one column.                                                         *)
LEMMA MatchLines ==
    ASSUME NEW Ids, NEW rows \in Rows(Ids), NEW name \in Names
    PROVE  {i \in 1..Len(Lines(rows)) :
               Len(Lines(rows)[i]) = 2 /\ Lines(rows)[i][1] = name}
           = Match(rows, name)
<1>1. /\ Len(Lines(rows)) = Len(rows) + 1
      /\ \A i \in 1..Len(rows) :
            Lines(rows)[i] = <<rows[i].name, rows[i].id>>
      /\ Lines(rows)[Len(rows) + 1] = <<"">>
  BY LinesShape
<1>2. Len(rows) \in Nat
  BY LenProperties DEF Rows
<1>3. Len(<<"">>) # 2
  OBVIOUS
<1>4. \A i \in 1..Len(rows) + 1 : i \in 1..Len(rows) \/ i = Len(rows) + 1
  BY <1>2
<1>5. ASSUME NEW i \in 1..Len(rows)
      PROVE  (Len(Lines(rows)[i]) = 2 /\ Lines(rows)[i][1] = name)
             <=> rows[i].name = name
  <2>1. Lines(rows)[i] = <<rows[i].name, rows[i].id>>
    BY <1>1
  <2>2. /\ Len(<<rows[i].name, rows[i].id>>) = 2
        /\ <<rows[i].name, rows[i].id>>[1] = rows[i].name
    OBVIOUS
  <2>3. QED
    BY <2>1, <2>2, Zenon
<1>6. ~(Len(Lines(rows)[Len(rows) + 1]) = 2)
  BY <1>1, <1>3, Zenon
<1>8. Len(rows) + 1 \notin 1..Len(rows)
  BY <1>2
<1>9. Len(Lines(rows)) = Len(rows) + 1
  BY <1>1, Zenon
<1>7. QED
  <2> SUFFICES ASSUME NEW i
               PROVE  (i \in 1..Len(Lines(rows)) /\ Len(Lines(rows)[i]) = 2
                         /\ Lines(rows)[i][1] = name)
                      <=> i \in Match(rows, name)
    OBVIOUS
  <2>1. CASE i \in 1..Len(rows)
    <3>1. i \in 1..Len(Lines(rows))
      BY <1>9, <1>2, <2>1
    <3>2. QED
      BY <2>1, <3>1, <1>5 DEF Match
  <2>2. CASE i = Len(rows) + 1
    BY <2>2, <1>6, <1>8 DEF Match
  <2>3. CASE i \notin 1..Len(rows) + 1
    <3>1. i \notin 1..Len(Lines(rows)) /\ i \notin 1..Len(rows)
      BY <1>9, <1>2, <2>3
    <3>2. QED
      BY <3>1 DEF Match
  <2>4. QED
    BY <1>4, <2>1, <2>2, <2>3

(* find_vpc and find_subnet: NotFound when no row carries the name, and   *)
(* otherwise the id of the first row that does.                           *)
LEMMA FindSpec ==
    ASSUME NEW Ids, NEW rows \in Rows(Ids), NEW name \in Names,
           NotFound \notin Ids
    PROVE  /\ FindByName(Lines(rows), name) \in Ids \cup {NotFound}
           /\ FindByName(Lines(rows), name) = NotFound <=> Match(rows, name) = {}
           /\ FindByName(Lines(rows), name) # NotFound =>
                 \E i \in Match(rows, name) :
                    /\ \A j \in Match(rows, name) : i <= j
                    /\ rows[i].id = FindByName(Lines(rows), name)
<1> DEFINE M == Match(rows, name)
           k == CHOOSE i \in M : \A j \in M : i <= j
<1>1. FindByName(Lines(rows), name) = IF M = {} THEN NotFound
                                      ELSE Lines(rows)[k][2]
  <2>1. {i \in 1..Len(Lines(rows)) :
            Len(Lines(rows)[i]) = 2 /\ Lines(rows)[i][1] = name} = M
    BY MatchLines
  <2>2. M \subseteq 1..Len(rows) /\ 0 \notin 1..Len(rows)
    BY DEF Match
  <2> DEFINE I == {i \in 1..Len(Lines(rows)) :
                     Len(Lines(rows)[i]) = 2 /\ Lines(rows)[i][1] = name}
  <2> HIDE DEF M, k, I
  <2>5. FirstMatch(Lines(rows), name)
        = IF I = {} THEN 0 ELSE CHOOSE i \in I : \A j \in I : i <= j
    BY DEF FirstMatch, I
  <2>6. (CHOOSE i \in I : \A j \in I : i <= j) = k
    BY <2>1 DEF I, k
  <2>3. FirstMatch(Lines(rows), name)
        = IF M = {} THEN 0 ELSE k
    BY <2>1, <2>5, <2>6 DEF I
  <2> DEFINE FI == FirstMatch(Lines(rows), name)
  <2> HIDE DEF FI
  <2>7. FindByName(Lines(rows), name)
        = IF FI = 0 THEN NotFound ELSE Lines(rows)[FI][2]
    BY DEF FindByName, FI
  <2>8. M # {} => k \in M /\ k # 0
    <3>1. M \subseteq Nat
      BY DEF Match, M
    <3>2. M # {} => \E i \in M : \A j \in M : i <= j
      BY <3>1, LeastExists
    <3>3. QED
      BY <2>2, <3>2 DEF k
  <2>4. QED
    BY <2>3, <2>7, <2>8 DEF FI
<1>2. CASE M = {}
  BY <1>1, <1>2
<1>3. CASE M # {}
  <2>1. M \subseteq Nat /\ M \subseteq 1..Len(rows)
    BY DEF Match
  <2>2. \E i \in M : \A j \in M : i <= j
    BY <1>3, <2>1, LeastExists
  <2>3. k \in M /\ \A j \in M : k <= j
    BY <2>2
  <2>4. Lines(rows)[k] = <<rows[k].name, rows[k].id>>
    BY <2>1, <2>3, LinesShape
  <2>7. Lines(rows)[k][2] = rows[k].id
    BY <2>4, Pair
  <2>8. rows[k] \in [name : Names \cup {Untagged}, id : Ids]
    BY <2>1, <2>3, ElementOfSeq DEF Rows
  <2>5. rows[k].id \in Ids
    BY <2>8
  <2>6. QED
    BY <1>1, <1>3, <2>3, <2>7, <2>5
<1>4. QED
  BY <1>2, <1>3

-----------------------------------------------------------------------------
(* The listings are sequences of rows, and no id is the value NotFound.    *)
LEMMA ListingsAreRows ==
    ASSUME TypeOK
    PROVE  /\ vpcs \in Rows(VpcIds)
           /\ \A w \in VpcIds : subnets[w] \in Rows(SubnetIds)
           /\ NotFound \notin VpcIds /\ NotFound \notin SubnetIds
<1>1. MaxRows \in Nat
  BY ConstantsAssumption
<1>2. vpcs \in Rows(VpcIds)
  BY <1>1, SeqUpToSeq DEF TypeOK, VpcRows, Rows
<1>3. \A w \in VpcIds : subnets[w] \in Rows(SubnetIds)
  BY <1>1, SeqUpToSeq DEF TypeOK, SubnetRows, Rows
<1>4. QED
  BY <1>2, <1>3, ConstantsAssumption DEF NotFound

(* The first row of a name is the only row of that name with none before. *)
LEMMA FirstUnique ==
    ASSUME NEW rows, NEW name, NEW i0 \in Match(rows, name),
           \A j \in Match(rows, name) : i0 <= j
    PROVE  \A i \in 1..Len(rows) :
              (rows[i].name = name /\ \A j \in 1..i - 1 : rows[j].name # name)
              <=> i = i0
<1> SUFFICES ASSUME NEW i \in 1..Len(rows)
             PROVE  (rows[i].name = name /\ \A j \in 1..i - 1 : rows[j].name # name)
                    <=> i = i0
  OBVIOUS
<1>1. i0 \in 1..Len(rows) /\ rows[i0].name = name
  BY DEF Match
<1>2. ASSUME rows[i].name = name, \A j \in 1..i - 1 : rows[j].name # name
      PROVE  i = i0
  <2>1. i0 <= i
    BY <1>2 DEF Match
  <2>2. ~(i0 < i)
    BY <1>1, <1>2
  <2>3. QED
    BY <1>1, <2>1, <2>2
<1>3. \A j \in 1..i0 - 1 : rows[j].name # name
  <2> SUFFICES ASSUME NEW j \in 1..i0 - 1, rows[j].name = name PROVE FALSE
    OBVIOUS
  <2>1. j \in Match(rows, name)
    BY <1>1 DEF Match
  <2>2. QED
    BY <2>1
<1>4. QED
  BY <1>1, <1>2, <1>3

(* The constructor's step establishes the type and LocatedIffNamed.        *)
LEMMA ConstructStep ==
    ASSUME TypeOK, Construct
    PROVE  TypeOK' /\ LocatedIffNamed'
<1> DEFINE v == FindByName(Lines(vpcs), vpcName)
           n == FindByName(Lines(InVpc(subnets, v)), subName)
           MV == Match(vpcs, vpcName)
<1> HIDE DEF v, n, MV
<1>0. /\ vpcs \in Rows(VpcIds)
      /\ \A w \in VpcIds : subnets[w] \in Rows(SubnetIds)
      /\ NotFound \notin VpcIds /\ NotFound \notin SubnetIds
      /\ vpcName \in Names /\ subName \in Names
      /\ subnets \in [VpcIds -> SubnetRows]
  BY ListingsAreRows DEF TypeOK
<1>1. /\ vpc' = v
      /\ \/ v = NotFound /\ outcome' = "NameError" /\ subnet' = subnet
         \/ /\ v # NotFound /\ subnet' = n
            /\ outcome' = IF n = NotFound THEN "NameError" ELSE "ok"
      /\ UNCHANGED <<vpcs, subnets, vpcName, subName>>
  BY DEF Construct, v, n
<1>2. /\ v \in VpcIds \cup {NotFound}
      /\ v = NotFound <=> MV = {}
      /\ v # NotFound =>
            \E i \in MV : (\A j \in MV : i <= j) /\ vpcs[i].id = v
  BY <1>0, FindSpec DEF v, MV
<1>3. CASE v = NotFound
  <2>1. TypeOK'
    BY <1>0, <1>1, <1>2, <1>3 DEF TypeOK
  <2>2. ~\E i \in 1..Len(vpcs) : vpcs[i].name = vpcName
    BY <1>2, <1>3 DEF MV, Match
  <2>3. outcome' = "NameError"
    BY <1>1, <1>3
  <2>4. QED
    BY <1>1, <2>1, <2>2, <2>3 DEF LocatedIffNamed
<1>4. CASE v # NotFound
  <2>1. PICK i0 \in MV : (\A j \in MV : i0 <= j) /\ vpcs[i0].id = v
    BY <1>2, <1>4
  <2>2. v \in VpcIds /\ InVpc(subnets, v) = subnets[v]
    BY <1>0, <1>2, <1>4 DEF InVpc
  <2>3. subnets[v] \in Rows(SubnetIds)
    BY <1>0, <2>2
  <2>4. /\ n \in SubnetIds \cup {NotFound}
        /\ n = NotFound <=> Match(subnets[v], subName) = {}
        /\ n # NotFound =>
              \E k \in Match(subnets[v], subName) : subnets[v][k].id = n
    BY <1>0, <2>2, <2>3, FindSpec DEF n
  <2>5. \A i \in 1..Len(vpcs) :
           (vpcs[i].name = vpcName /\ \A j \in 1..i - 1 : vpcs[j].name # vpcName)
           <=> i = i0
    BY <2>1, FirstUnique DEF MV
  <2>6. i0 \in 1..Len(vpcs) /\ vpcs[i0].name = vpcName
    BY <2>1 DEF MV, Match
  <2>7. /\ vpc' = v /\ subnet' = n
        /\ outcome' = IF n = NotFound THEN "NameError" ELSE "ok"
    BY <1>1, <1>4
  <2>8. TypeOK'
    BY <1>0, <1>1, <1>2, <2>4, <2>7 DEF TypeOK
  <2>9. (outcome' = "ok") =
           \E i \in 1..Len(vpcs) :
              /\ vpcs[i].name = vpcName
              /\ \A j \in 1..i - 1 : vpcs[j].name # vpcName
              /\ \E k \in 1..Len(subnets[vpcs[i].id]) :
                    subnets[vpcs[i].id][k].name = subName
    <3>1. (outcome' = "ok") <=> Match(subnets[v], subName) # {}
      BY <2>4, <2>7
    <3>2. Match(subnets[v], subName) # {}
          <=> \E k \in 1..Len(subnets[vpcs[i0].id]) :
                 subnets[vpcs[i0].id][k].name = subName
      BY <2>1 DEF Match
    <3>3. QED
      BY <1>1, <2>5, <2>6, <3>1, <3>2, Zenon
  <2>10. outcome' = "ok" =>
            \E i \in 1..Len(vpcs) :
               /\ vpcs[i].name = vpcName /\ vpcs[i].id = vpc'
               /\ \E k \in 1..Len(subnets[vpc']) :
                     subnets[vpc'][k].name = subName /\ subnets[vpc'][k].id = subnet'
    <3>1. ASSUME outcome' = "ok"
          PROVE  \E k \in Match(subnets[v], subName) : subnets[v][k].id = n
      BY <2>4, <2>7, <3>1
    <3>2. QED
      BY <2>1, <2>6, <2>7, <3>1 DEF Match
  <2>11. QED
    BY <1>1, <2>8, <2>9, <2>10, Zenon DEF LocatedIffNamed
<1>5. QED
  BY <1>3, <1>4

(* The type and LocatedIffNamed together are inductive.                   *)
LInv == TypeOK /\ LocatedIffNamed

LEMMA InitLInv == Init => LInv
  BY DEF Init, LInv, TypeOK, LocatedIffNamed

LEMMA NextLInv == LInv /\ [Next]_vars => LInv'
<1> SUFFICES ASSUME LInv, [Next]_vars PROVE LInv'
  OBVIOUS
<1>1. CASE Construct
  BY <1>1, ConstructStep DEF LInv
<1>2. CASE UNCHANGED vars
  BY <1>2 DEF LInv, TypeOK, LocatedIffNamed, vars
<1>3. QED
  BY <1>1, <1>2 DEF Next

(* Every state the constructor reaches is well typed: self.vpc and        *)
(* self.subnet hold a listed id or nothing, for any listings and names.    *)
THEOREM LocatorTypeCorrect == Spec => []TypeOK
<1>1. LInv => TypeOK
  BY DEF LInv
<1>2. QED
  BY InitLInv, NextLInv, <1>1, PTL DEF Spec

(* For every listing of VPCs and subnets, AWSBuilder.__init__ succeeds     *)
(* exactly when the first VPC of the given name holds a subnet of the      *)
(* given name, and then keeps that VPC and a subnet of it with that name.  *)
THEOREM LocatedIffNamedHolds == Spec => []LocatedIffNamed
<1>1. LInv => LocatedIffNamed
  BY DEF LInv
<1>2. QED
  BY InitLInv, NextLInv, <1>1, PTL DEF Spec
=============================================================================
