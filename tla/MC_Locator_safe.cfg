\* find_vpc and find_subnet over every listing of up to two resources.
CONSTANTS
    v1 = v1
    v2 = v2
    n1 = n1
    n2 = n2
    Names <- MCNames
    VpcIds <- MCVpcIds
    SubnetIds <- MCSubnetIds
    MaxRows <- MCMaxRows
SPECIFICATION Spec
INVARIANTS
    TypeOK
    LocatedIffNamed
\* The constructor runs once and returns or raises.
CHECK_DEADLOCK FALSE
