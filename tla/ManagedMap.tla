------------------------------ MODULE ManagedMap ------------------------------
(***************************************************************************)
(* What the host manager promises of the AprilTag map: it is at all times  *)
(* one whole map, and it changes only by whole edits that it admits.       *)
(***************************************************************************)
CONSTANTS Tags,          \* tag ids
          Definitions    \* position_m, rpy_deg and size_m of a tag

VARIABLE tags            \* the map: a definition for some of the ids

TagMaps == UNION {[ids -> Definitions] : ids \in SUBSET Tags}

(* One tag comes, changes, changes its id or goes; the others stay as they  *)
(* are, and no id is taken from another tag.                                *)
Others(id, old) == \A t \in Tags \ {id, old} :
  /\ t \in DOMAIN tags' <=> t \in DOMAIN tags
  /\ t \in DOMAIN tags => tags'[t] = tags[t]

Save(id)        == id \in DOMAIN tags' /\ Others(id, id)
Delete(id)      == id \in DOMAIN tags \ DOMAIN tags' /\ Others(id, id)
Rename(old, id) == /\ old \in DOMAIN tags \ DOMAIN tags'
                   /\ id \in DOMAIN tags' \ DOMAIN tags
                   /\ Others(id, old)

MapInit == tags \in TagMaps

MapNext ==
  /\ tags' \in TagMaps
  /\ \E id, old \in Tags : Save(id) \/ Delete(id) \/ Rename(old, id)

MapSpec == MapInit /\ [][MapNext]_tags
=============================================================================
