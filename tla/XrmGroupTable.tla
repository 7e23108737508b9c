----------------------------- MODULE XrmGroupTable -----------------------------
(***************************************************************************)
(* The table of user defined CU groups (m_udfCuGroups): a client declares  *)
(* a name for a choice of lists, and any client undeclares it.  The table  *)
(* has no holes: the groups behind one that goes are moved forward.  (The  *)
(* table of version 2 is kept by the same code.)                           *)
(***************************************************************************)
EXTENDS Integers

CONSTANTS
    Declarations,   \* the groups that clients declare: a name and lists
    NoGroup,        \* no name
    MaxGroups       \* XRM_MAX_UDF_CU_GROUP_NUM

ASSUME GroupTableAssumption ==
    /\ \A g \in Declarations : g.name # NoGroup
    /\ MaxGroups \in Nat

VARIABLES
    udfCuGroups,        \* m_udfCuGroups
    numUdfCuGroup       \* m_numUdfCuGroup

tableVars == <<udfCuGroups, numUdfCuGroup>>

Flushed == [name |-> NoGroup, options |-> <<>>]

GroupPlaces == 0 .. MaxGroups - 1

GroupTableInit ==
    /\ udfCuGroups = [g \in GroupPlaces |-> Flushed]
    /\ numUdfCuGroup = 0

(* Where the group stands, as far as the table is filled. *)
PlacesOf(name) == {g \in GroupPlaces : g < numUdfCuGroup /\ udfCuGroups[g].name = name}

OptionsOf(name) ==
    IF PlacesOf(name) = {} THEN <<>>
    ELSE udfCuGroups[CHOOSE g \in PlacesOf(name) : TRUE].options

GroupNames == {g.name : g \in Declarations}

----------------------------------------------------------------------------
(* resUdfCuGroupDeclare.  It does not look whether the table is full       *)
(* (bound).                                                                *)
UdfCuGroupDeclare(group) ==
    /\ PlacesOf(group.name) = {}
    /\ numUdfCuGroup < MaxGroups
    /\ udfCuGroups' = [udfCuGroups EXCEPT ![numUdfCuGroup] = group]
    /\ numUdfCuGroup' = numUdfCuGroup + 1

(* Mutant: the moving stops one place short. *)
ClosedEarly(place) ==
    [g \in GroupPlaces |-> IF g >= numUdfCuGroup - 1 THEN Flushed
                       ELSE IF g < place \/ g = numUdfCuGroup - 2 THEN udfCuGroups[g]
                       ELSE udfCuGroups[g + 1]]

(* The groups behind the place are moved one forward, and the last place   *)
(* is flushed.                                                             *)
Closed(place) ==
    [g \in GroupPlaces |-> IF g < place \/ g > numUdfCuGroup - 1 THEN udfCuGroups[g]
                       ELSE IF g = numUdfCuGroup - 1 THEN Flushed
                       ELSE udfCuGroups[g + 1]]

UdfCuGroupUndeclare(name) ==
    /\ \E place \in PlacesOf(name) : udfCuGroups' = Closed(place)
    /\ numUdfCuGroup' = numUdfCuGroup - 1

TableNext ==
    \/ \E group \in Declarations : UdfCuGroupDeclare(group)
    \/ \E name \in GroupNames : UdfCuGroupUndeclare(name)

----------------------------------------------------------------------------
(* Properties.                                                             *)

(* A group is what it was declared to be until it is undeclared, while     *)
(* others come and go around it in the table; and then it is gone.         *)
GroupsKept ==
    [][\A name \in GroupNames :
          /\ UdfCuGroupUndeclare(name) => OptionsOf(name)' = <<>>
          /\ PlacesOf(name) # {} => \/ OptionsOf(name)' = OptionsOf(name)
                                   \/ UdfCuGroupUndeclare(name)]_tableVars

=============================================================================
