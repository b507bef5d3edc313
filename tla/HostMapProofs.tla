--------------------------- MODULE HostMapProofs ---------------------------
(***************************************************************************)
(* The host manager's map with one request at a time, for every set of     *)
(* tags and definitions and every deployed map: it stays whole through     *)
(* failed writes and power losses, it changes only by edits the manager    *)
(* admits, and the answers tell what became of it.                         *)
(* Its types hold for any number of request threads.                       *)
(***************************************************************************)
EXTENDS HostMap, TLAPS

(* No second request thread.  With two of them the theorems are false: the *)
(* threads share the temporary file.                                       *)
OneHandler == \E h : Handlers = {h}

-----------------------------------------------------------------------------
(* Documents.                                                              *)

LEMMA TagMapIntro ==
  ASSUME NEW ids \in SUBSET Tags, NEW map \in [ids -> Definitions]
  PROVE  map \in TagMaps
BY DEF TagMaps

LEMMA TagMapElim ==
  ASSUME NEW map \in TagMaps
  PROVE  DOMAIN map \in SUBSET Tags /\ map \in [DOMAIN map -> Definitions]
BY DEF TagMaps

LEMMA WithoutFacts ==
  ASSUME NEW map \in TagMaps, NEW tag
  PROVE  /\ Without(map, tag) \in TagMaps
         /\ DOMAIN Without(map, tag) = DOMAIN map \ {tag}
         /\ \A t \in DOMAIN map \ {tag} : Without(map, tag)[t] = map[t]
<1>1. Without(map, tag) = [t \in DOMAIN map \ {tag} |-> map[t]]
  BY DEF Without, Restrict
<1>2. DOMAIN map \ {tag} \in SUBSET Tags
  BY TagMapElim
<1>3. Without(map, tag) \in [DOMAIN map \ {tag} -> Definitions]
  BY <1>1, TagMapElim
<1> QED BY <1>1, <1>2, <1>3, TagMapIntro

LEMMA WithFacts ==
  ASSUME NEW map \in TagMaps, NEW tag \in Tags, NEW definition \in Definitions
  PROVE  /\ With(map, tag, definition) \in TagMaps
         /\ DOMAIN With(map, tag, definition) = DOMAIN map \cup {tag}
         /\ \A t \in DOMAIN map \ {tag} :
              With(map, tag, definition)[t] = map[t]
<1>1. With(map, tag, definition) =
        [t \in DOMAIN map \cup {tag} |-> IF t = tag THEN definition ELSE map[t]]
  BY DEF With
<1>2. DOMAIN map \cup {tag} \in SUBSET Tags
  BY TagMapElim
<1>3. With(map, tag, definition) \in [DOMAIN map \cup {tag} -> Definitions]
  BY <1>1, TagMapElim
<1> QED BY <1>1, <1>2, <1>3, TagMapIntro

LEMMA EditFields ==
  ASSUME NEW edit \in Edits
  PROVE  /\ edit.kind \in {"upsert", "delete"} /\ edit.tag \in Tags
         /\ edit.kind = "upsert" => /\ edit.previous \in Tags
                                    /\ edit.definition \in Definitions
BY DEF Edits

(* Every edit of a map is a map.                                           *)
LEMMA EditedType ==
  ASSUME NEW map \in TagMaps, NEW edit \in Edits
  PROVE  Edited(map, edit) \in TagMaps
<1>1. CASE edit.kind = "delete"
  BY <1>1, WithoutFacts DEF Edited
<1>2. CASE edit.kind = "upsert"
  <2> DEFINE kept == IF Renames(edit) THEN Without(map, edit.previous) ELSE map
  <2>1. kept \in TagMaps
    BY WithoutFacts
  <2>2. Edited(map, edit) = With(kept, edit.tag, edit.definition)
    BY <1>2 DEF Edited
  <2> HIDE DEF kept
  <2> QED BY <1>2, <2>1, <2>2, WithFacts, EditFields
<1> QED BY <1>1, <1>2, EditFields

LEMMA WholeContent ==
  ASSUME NEW content \in Contents, content.whole
  PROVE  content.map \in TagMaps /\ content = Whole(content.map)
BY DEF Contents, Empty, Torn, Whole

LEMMA WholeFields ==
  ASSUME NEW map
  PROVE  Whole(map).whole /\ Whole(map).map = map
BY DEF Whole

-----------------------------------------------------------------------------
(* The inductive invariant: the map's file is whole, synced and no one's   *)
(* temporary file; and what the request that is under way has found and    *)
(* done so far.                                                            *)
FilesInPlace ==
  /\ map_entry \in synced /\ disk[map_entry].whole
  /\ map_entry <= created /\ tmp_entry <= created /\ tmp_entry # map_entry

UnderWay(h) == thread[h] \in {"open", "write", "fsync", "replace"}

EditIsCurrent(h) ==
  UnderWay(h) =>
    /\ Accepts(disk[map_entry], request[h])
    /\ map_before[h] = disk[map_entry].map
    /\ document[h] = Edited(map_before[h], request[h])

TemporaryIsMine(h) ==
  /\ thread[h] \in {"write", "fsync", "replace"} => tmp_entry \in Inodes
  /\ thread[h] \in {"write", "fsync"} => handle[h] = tmp_entry
  /\ thread[h] = "write" => disk[tmp_entry] = Empty
  /\ thread[h] \in {"fsync", "replace"} => disk[tmp_entry] = Whole(document[h])
  /\ thread[h] = "replace" => tmp_entry \in synced

AnswerIsTrue(h) ==
  /\ thread[h] \in {"cleanup", "ok"} =>
       disk[map_entry].map = Edited(map_before[h], request[h])
  /\ thread[h] = "error" => disk[map_entry].map = map_before[h]

HostInv ==
  /\ HostTypeOK
  /\ FilesInPlace
  /\ \A h \in Handlers :
       EditIsCurrent(h) /\ TemporaryIsMine(h) /\ AnswerIsTrue(h)

LEMMA HostInitially == HostInit => HostInv
<1> SUFFICES ASSUME HostInit PROVE HostInv
  OBVIOUS
<1>1. 1 \in Inodes /\ Absent <= 1 /\ Absent # 1
  BY HostAssumption DEF HostAssumption, Inodes, Absent
<1>2. disk \in [Inodes -> Contents]
  <2>1. InitialMap \in TagMaps
    BY HostAssumption DEF HostAssumption
  <2>2. Whole(InitialMap) \in Contents /\ Empty \in Contents
    BY <2>1 DEF Contents
  <2> QED BY <2>2 DEF HostInit
<1>3. HostTypeOK
  BY <1>1, <1>2, HostAssumption
     DEF HostTypeOK, HostInit, HostAssumption, Steps, Requests
<1>4. FilesInPlace
  <2>1. disk[1] = Whole(InitialMap)
    BY <1>1 DEF HostInit
  <2> QED BY <1>1, <2>1, WholeFields DEF FilesInPlace, HostInit
<1>5. \A h \in Handlers :
        EditIsCurrent(h) /\ TemporaryIsMine(h) /\ AnswerIsTrue(h)
  BY DEF HostInit, EditIsCurrent, UnderWay, TemporaryIsMine, AnswerIsTrue
<1> QED BY <1>3, <1>4, <1>5 DEF HostInv

LEMMA MapContent ==
  ASSUME HostInv
  PROVE  /\ disk[map_entry].map \in TagMaps
         /\ disk[map_entry] = Whole(disk[map_entry].map)
         /\ CurrentMap = disk[map_entry].map
<1>1. disk[map_entry] \in Contents /\ disk[map_entry].whole
  BY DEF HostInv, HostTypeOK, FilesInPlace
<1> QED BY <1>1, WholeContent DEF CurrentMap, MapAlwaysWhole

LEMMA TypedThread ==
  ASSUME HostInv, NEW h \in Handlers
  PROVE  /\ thread[h] \in Steps /\ request[h] \in Requests
         /\ document[h] \in TagMaps /\ map_before[h] \in TagMaps
         /\ \A step \in Steps :
              /\ [thread EXCEPT ![h] = step] \in [Handlers -> Steps]
              /\ [thread EXCEPT ![h] = step][h] = step
BY DEF HostInv, HostTypeOK

LEMMA StepTakeRequest ==
  ASSUME OneHandler, HostInv, NEW h \in Handlers, NEW edit \in Requests,
         TakeRequest(h, edit)
  PROVE  HostInv'
<1> DEFINE content == disk[map_entry]
<1>1. /\ content \in Contents /\ content.whole /\ content.map \in TagMaps
      /\ map_entry' = map_entry /\ disk' = disk
  BY MapContent DEF HostInv, HostTypeOK, FilesInPlace, TakeRequest, fileVars
<1>2. \A k \in Handlers : k = h
  BY DEF OneHandler
<1>3. /\ thread' \in [Handlers -> Steps] /\ thread'[h] \in {"open", "error"}
      /\ thread'[h] = "open" => /\ Accepts(content, edit)
                                /\ document'[h] = Edited(content.map, edit)
      /\ document' \in [Handlers -> TagMaps]
  <2>1. CASE Accepts(content, edit)
    <3>1. edit \in Edits
      BY <2>1 DEF Accepts, Requests
    <3>2. Edited(content.map, edit) \in TagMaps
      BY <1>1, <3>1, EditedType
    <3>3. /\ thread' = [thread EXCEPT ![h] = "open"]
          /\ document' = [document EXCEPT ![h] = Edited(content.map, edit)]
      BY <2>1 DEF TakeRequest, Goes
    <3> HIDE DEF content
    <3> QED BY <2>1, <3>2, <3>3 DEF HostInv, HostTypeOK, Steps
  <2>2. CASE ~Accepts(content, edit)
    BY <2>2 DEF TakeRequest, Goes, HostInv, HostTypeOK, Steps
  <2> QED BY <2>1, <2>2
<1>4. /\ request' \in [Handlers -> Requests] /\ request'[h] = edit
      /\ map_before' \in [Handlers -> TagMaps] /\ map_before'[h] = content.map
  <2>1. /\ request' = [request EXCEPT ![h] = edit]
        /\ map_before' = [map_before EXCEPT ![h] = content.map]
    BY <1>1 DEF TakeRequest
  <2> HIDE DEF content
  <2> QED BY <1>1, <2>1 DEF HostInv, HostTypeOK
<1>5. HostTypeOK'
  BY <1>3, <1>4 DEF HostInv, HostTypeOK, TakeRequest, fileVars
<1>6. FilesInPlace'
  BY DEF HostInv, FilesInPlace, TakeRequest, fileVars
<1>7. EditIsCurrent(h)' /\ TemporaryIsMine(h)' /\ AnswerIsTrue(h)'
  BY <1>1, <1>3, <1>4 DEF EditIsCurrent, UnderWay, TemporaryIsMine, AnswerIsTrue
<1> QED BY <1>2, <1>5, <1>6, <1>7 DEF HostInv

LEMMA StepOpenTemporary ==
  ASSUME OneHandler, HostInv, NEW h \in Handlers, OpenTemporary(h)
  PROVE  HostInv'
<1> DEFINE inode == IF tmp_entry = Absent THEN created + 1 ELSE tmp_entry
<1>1. \A k \in Handlers : k = h
  BY DEF OneHandler
<1>2. /\ inode \in Inodes /\ inode # map_entry
      /\ created' \in Inodes /\ inode <= created' /\ map_entry <= created'
  BY HostAssumption DEF OpenTemporary, HostInv, HostTypeOK, FilesInPlace, Inodes,
                        Absent, HostAssumption
<1>3. /\ thread[h] = "open" /\ thread' = [thread EXCEPT ![h] = "write"]
      /\ tmp_entry' = inode /\ handle' = [handle EXCEPT ![h] = inode]
      /\ disk' = [disk EXCEPT ![inode] = Empty] /\ synced' = synced \ {inode}
      /\ UNCHANGED <<map_entry, request, document, map_before>>
  BY DEF OpenTemporary, Goes
<1> HIDE DEF inode
<1>4. /\ disk' \in [Inodes -> Contents] /\ disk'[inode] = Empty
      /\ disk'[map_entry] = disk[map_entry] /\ map_entry \in synced'
      /\ handle' \in [Handlers -> Inodes \cup {Absent}] /\ handle'[h] = inode
      /\ synced' \subseteq Inodes
  BY <1>2, <1>3 DEF HostInv, HostTypeOK, FilesInPlace, Contents
<1>5. thread' \in [Handlers -> Steps] /\ thread'[h] = "write"
  BY <1>3, TypedThread DEF Steps
<1>6. HostTypeOK'
  BY <1>2, <1>3, <1>4, <1>5 DEF HostInv, HostTypeOK
<1>7. FilesInPlace'
  BY <1>2, <1>3, <1>4 DEF HostInv, FilesInPlace
<1>8. EditIsCurrent(h)
  BY DEF HostInv
<1>9. EditIsCurrent(h)' /\ TemporaryIsMine(h)' /\ AnswerIsTrue(h)'
  BY <1>2, <1>3, <1>4, <1>5, <1>8
     DEF EditIsCurrent, UnderWay, TemporaryIsMine, AnswerIsTrue
<1> QED BY <1>1, <1>6, <1>7, <1>9 DEF HostInv

LEMMA StepWriteTemporary ==
  ASSUME OneHandler, HostInv, NEW h \in Handlers, WriteTemporary(h)
  PROVE  HostInv'
<1>1. \A k \in Handlers : k = h
  BY DEF OneHandler
<1>2. /\ thread[h] = "write" /\ handle[h] = tmp_entry /\ tmp_entry \in Inodes
      /\ tmp_entry # map_entry /\ disk[tmp_entry] = Empty
  BY DEF WriteTemporary, HostInv, TemporaryIsMine, FilesInPlace
<1>3. /\ synced' = synced \ {tmp_entry}
      /\ UNCHANGED <<created, map_entry, tmp_entry, request, document, handle,
                     map_before>>
  BY <1>2 DEF WriteTemporary
<1>4. \/ /\ disk' = [disk EXCEPT ![tmp_entry] = Whole(document[h])]
         /\ thread' = [thread EXCEPT ![h] = "fsync"]
      \/ /\ disk' = [disk EXCEPT ![tmp_entry] = Torn]
         /\ thread' = [thread EXCEPT ![h] = "abandon"]
  BY <1>2 DEF WriteTemporary, Goes
<1>5. Whole(document[h]) \in Contents /\ Torn \in Contents
  BY TypedThread DEF Contents
<1>6. /\ disk' \in [Inodes -> Contents] /\ disk'[map_entry] = disk[map_entry]
      /\ map_entry \in synced' /\ synced' \subseteq Inodes
      /\ thread' \in [Handlers -> Steps] /\ thread'[h] \in {"fsync", "abandon"}
      /\ thread'[h] = "fsync" => disk'[tmp_entry] = Whole(document[h])
  BY <1>2, <1>3, <1>4, <1>5 DEF HostInv, HostTypeOK, FilesInPlace, Steps
<1>7. HostTypeOK'
  BY <1>3, <1>6 DEF HostInv, HostTypeOK
<1>8. FilesInPlace'
  BY <1>3, <1>6 DEF HostInv, FilesInPlace
<1>9. EditIsCurrent(h)
  BY DEF HostInv
<1>10. EditIsCurrent(h)' /\ TemporaryIsMine(h)' /\ AnswerIsTrue(h)'
  BY <1>2, <1>3, <1>6, <1>9
     DEF EditIsCurrent, UnderWay, TemporaryIsMine, AnswerIsTrue
<1> QED BY <1>1, <1>7, <1>8, <1>10 DEF HostInv

LEMMA StepFsync ==
  ASSUME OneHandler, HostInv, NEW h \in Handlers, Fsync(h)
  PROVE  HostInv'
<1>1. \A k \in Handlers : k = h
  BY DEF OneHandler
<1>2. /\ thread[h] = "fsync" /\ handle[h] = tmp_entry /\ tmp_entry \in Inodes
      /\ disk[tmp_entry] = Whole(document[h])
  BY DEF Fsync, HostInv, TemporaryIsMine
<1>3. /\ synced' = synced \cup {tmp_entry}
      /\ handle' = [handle EXCEPT ![h] = Absent]
      /\ thread' = [thread EXCEPT ![h] = "replace"]
      /\ UNCHANGED <<disk, created, map_entry, tmp_entry, request, document,
                     map_before>>
  BY <1>2 DEF Fsync, Goes
<1>4. /\ thread' \in [Handlers -> Steps] /\ thread'[h] = "replace"
      /\ handle' \in [Handlers -> Inodes \cup {Absent}]
      /\ synced' \subseteq Inodes /\ tmp_entry \in synced'
  BY <1>2, <1>3 DEF HostInv, HostTypeOK, Steps
<1>5. HostTypeOK'
  BY <1>3, <1>4 DEF HostInv, HostTypeOK
<1>6. FilesInPlace'
  BY <1>3 DEF HostInv, FilesInPlace
<1>7. EditIsCurrent(h)
  BY DEF HostInv
<1>8. EditIsCurrent(h)' /\ TemporaryIsMine(h)' /\ AnswerIsTrue(h)'
  BY <1>2, <1>3, <1>4, <1>7
     DEF EditIsCurrent, UnderWay, TemporaryIsMine, AnswerIsTrue
<1> QED BY <1>1, <1>5, <1>6, <1>8 DEF HostInv

(* The rename finds this thread's document, whole and synced.              *)
LEMMA ReplaceFacts ==
  ASSUME HostInv, NEW h \in Handlers, Replace(h)
  PROVE  /\ thread' = [thread EXCEPT ![h] = "cleanup"]
         /\ map_entry' = tmp_entry /\ tmp_entry' = Absent /\ tmp_entry \in Inodes
         /\ tmp_entry \in synced
         /\ disk[tmp_entry] = Whole(Edited(disk[map_entry].map, request[h]))
         /\ Accepts(disk[map_entry], request[h])
         /\ map_before[h] = disk[map_entry].map
         /\ UNCHANGED <<disk, synced, created, request, document, handle,
                        map_before>>
<1>1. /\ thread[h] = "replace" /\ tmp_entry \in Inodes /\ tmp_entry \in synced
      /\ disk[tmp_entry] = Whole(document[h])
  BY DEF Replace, HostInv, TemporaryIsMine
<1>2. /\ document[h] = Edited(disk[map_entry].map, request[h])
      /\ Accepts(disk[map_entry], request[h])
      /\ map_before[h] = disk[map_entry].map
  BY <1>1 DEF HostInv, EditIsCurrent, UnderWay
<1>3. tmp_entry # Absent
  BY <1>1, HostAssumption DEF Absent, Inodes, HostAssumption
<1> QED BY <1>1, <1>2, <1>3 DEF Replace, Goes

LEMMA StepReplace ==
  ASSUME OneHandler, HostInv, NEW h \in Handlers, Replace(h)
  PROVE  HostInv'
<1>1. \A k \in Handlers : k = h
  BY DEF OneHandler
<1>2. /\ thread' = [thread EXCEPT ![h] = "cleanup"]
      /\ map_entry' = tmp_entry /\ tmp_entry' = Absent /\ tmp_entry \in Inodes
      /\ tmp_entry \in synced
      /\ disk[tmp_entry] = Whole(Edited(map_before[h], request[h]))
      /\ UNCHANGED <<disk, synced, created, request, document, handle,
                     map_before>>
  BY ReplaceFacts
<1>3. /\ disk[tmp_entry].whole
      /\ disk[tmp_entry].map = Edited(map_before[h], request[h])
  BY <1>2, WholeFields
<1>4. thread' \in [Handlers -> Steps] /\ thread'[h] = "cleanup"
  BY <1>2, TypedThread DEF Steps
<1>5. HostTypeOK'
  BY <1>2, <1>4 DEF HostInv, HostTypeOK
<1>6. FilesInPlace'
  BY <1>2, <1>3, HostAssumption
     DEF HostInv, HostTypeOK, FilesInPlace, Absent, Inodes, HostAssumption
<1>7. EditIsCurrent(h)' /\ TemporaryIsMine(h)' /\ AnswerIsTrue(h)'
  BY <1>2, <1>3, <1>4 DEF EditIsCurrent, UnderWay, TemporaryIsMine, AnswerIsTrue
<1> QED BY <1>1, <1>5, <1>6, <1>7 DEF HostInv

LEMMA StepCleanup ==
  ASSUME OneHandler, HostInv, NEW h \in Handlers, Cleanup(h)
  PROVE  HostInv'
<1>1. \A k \in Handlers : k = h
  BY DEF OneHandler
<1>2. /\ thread[h] \in {"cleanup", "abandon"} /\ tmp_entry' = Absent
      /\ handle' = [handle EXCEPT ![h] = Absent]
      /\ thread' = [thread EXCEPT ![h] = IF thread[h] = "cleanup" THEN "ok"
                                         ELSE "dropped"]
      /\ UNCHANGED <<disk, synced, created, map_entry, request, document,
                     map_before>>
  BY DEF Cleanup, Goes
<1>3. /\ thread' \in [Handlers -> Steps] /\ thread'[h] \in {"ok", "dropped"}
      /\ thread'[h] = "ok" => thread[h] = "cleanup"
      /\ handle' \in [Handlers -> Inodes \cup {Absent}]
  BY <1>2 DEF HostInv, HostTypeOK, Steps
<1>4. HostTypeOK'
  BY <1>2, <1>3 DEF HostInv, HostTypeOK
<1>5. FilesInPlace'
  BY <1>2, HostAssumption
     DEF HostInv, HostTypeOK, FilesInPlace, Absent, Inodes, HostAssumption
<1>6. AnswerIsTrue(h)
  BY DEF HostInv
<1>7. EditIsCurrent(h)' /\ TemporaryIsMine(h)' /\ AnswerIsTrue(h)'
  BY <1>2, <1>3, <1>6 DEF EditIsCurrent, UnderWay, TemporaryIsMine, AnswerIsTrue
<1> QED BY <1>1, <1>4, <1>5, <1>7 DEF HostInv

LEMMA StepPowerLoss ==
  ASSUME HostInv, PowerLoss
  PROVE  HostInv'
<1>1. PICK lost \in SUBSET (Inodes \ synced) :
        disk' = [i \in Inodes |-> IF i \in lost THEN Empty ELSE disk[i]]
  BY DEF PowerLoss
<1>2. /\ synced' = Inodes /\ tmp_entry' = Absent
      /\ handle' = [h \in Handlers |-> Absent]
      /\ thread' = [h \in Handlers |->
                      IF thread[h] \in {"ok", "error"} THEN thread[h]
                      ELSE "dropped"]
      /\ UNCHANGED <<created, map_entry, request, document, map_before>>
  BY DEF PowerLoss
<1>3. disk' \in [Inodes -> Contents] /\ disk'[map_entry] = disk[map_entry]
  BY <1>1 DEF HostInv, HostTypeOK, FilesInPlace, Contents
<1>4. thread' \in [Handlers -> Steps]
  BY <1>2 DEF Steps
<1>5. HostTypeOK'
  BY <1>2, <1>3, <1>4 DEF HostInv, HostTypeOK
<1>6. FilesInPlace'
  BY <1>2, <1>3, HostAssumption
     DEF HostInv, HostTypeOK, FilesInPlace, Absent, Inodes, HostAssumption
<1>7. ASSUME NEW h \in Handlers
      PROVE  EditIsCurrent(h)' /\ TemporaryIsMine(h)' /\ AnswerIsTrue(h)'
  <2>1. /\ thread'[h] \in {"ok", "error", "dropped"}
        /\ thread'[h] # "dropped" => thread'[h] = thread[h]
    BY <1>2
  <2>2. AnswerIsTrue(h)
    BY DEF HostInv
  <2> QED BY <1>2, <1>3, <2>1, <2>2
          DEF EditIsCurrent, UnderWay, TemporaryIsMine, AnswerIsTrue
<1> QED BY <1>5, <1>6, <1>7 DEF HostInv

LEMMA HostStep ==
  ASSUME OneHandler
  PROVE  HostInv /\ [HostNext]_hostVars => HostInv'
<1> SUFFICES ASSUME HostInv, [HostNext]_hostVars PROVE HostInv'
  OBVIOUS
<1>1. CASE UNCHANGED hostVars
  BY <1>1 DEF hostVars, HostInv, HostTypeOK, FilesInPlace, EditIsCurrent,
              UnderWay, TemporaryIsMine, AnswerIsTrue
<1> QED
  BY <1>1, StepTakeRequest, StepOpenTemporary, StepWriteTemporary, StepFsync,
     StepReplace, StepCleanup, StepPowerLoss DEF HostNext

-----------------------------------------------------------------------------
(* The refinement of ManagedMap.                                           *)

(* An edit that the manager accepts is one that ManagedMap admits.         *)
LEMMA EditIsAdmitted ==
  ASSUME NEW edit \in Edits, CurrentMap \in TagMaps,
         Accepts(Whole(CurrentMap), edit),
         CurrentMap' = Edited(CurrentMap, edit)
  PROVE  Managed!MapNext
<1> DEFINE map == CurrentMap
<1>1. Edited(map, edit) \in TagMaps
  BY EditedType
<1>2. CurrentMap' \in Managed!TagMaps
  BY <1>1 DEF TagMaps, Managed!TagMaps
<1>3. /\ edit.kind = "delete" => edit.tag \in DOMAIN map
      /\ Renames(edit) => /\ edit.previous \in DOMAIN map
                          /\ edit.tag \notin DOMAIN map
  BY WholeFields DEF Accepts
<1>4. CASE edit.kind = "delete"
  <2>1. CurrentMap' = Without(map, edit.tag)
    BY <1>4 DEF Edited
  <2>2. /\ DOMAIN Without(map, edit.tag) = DOMAIN map \ {edit.tag}
        /\ \A t \in DOMAIN map \ {edit.tag} : Without(map, edit.tag)[t] = map[t]
    BY WithoutFacts
  <2>3. Managed!Delete(edit.tag)
    <3> DEFINE next == Without(map, edit.tag)
    <3> HIDE DEF next
    <3>1. /\ CurrentMap' = next
          /\ DOMAIN next = DOMAIN CurrentMap \ {edit.tag}
          /\ \A t \in DOMAIN CurrentMap \ {edit.tag} : next[t] = CurrentMap[t]
      BY <2>1, <2>2 DEF next
    <3> QED BY <1>3, <1>4, <3>1 DEF Managed!Delete, Managed!Others
  <2> QED BY <1>2, <2>3, EditFields DEF Managed!MapNext
<1>5. CASE edit.kind = "upsert" /\ ~Renames(edit)
  <2>1. CurrentMap' = With(map, edit.tag, edit.definition)
    BY <1>5 DEF Edited
  <2>2. Managed!Save(edit.tag)
    <3> DEFINE next == With(map, edit.tag, edit.definition)
    <3>1. /\ DOMAIN next = DOMAIN map \cup {edit.tag}
          /\ \A t \in DOMAIN map \ {edit.tag} : next[t] = map[t]
      BY <1>5, WithFacts, EditFields
    <3>2. CurrentMap' = next
      BY <2>1
    <3> HIDE DEF next
    <3> QED BY <3>1, <3>2 DEF Managed!Save, Managed!Others
  <2> QED BY <1>2, <2>2, EditFields DEF Managed!MapNext
<1>6. CASE edit.kind = "upsert" /\ Renames(edit)
  <2> DEFINE kept == Without(map, edit.previous)
  <2>1. CurrentMap' = With(kept, edit.tag, edit.definition)
    BY <1>6 DEF Edited
  <2>2. /\ kept \in TagMaps /\ DOMAIN kept = DOMAIN map \ {edit.previous}
        /\ \A t \in DOMAIN map \ {edit.previous} : kept[t] = map[t]
    BY WithoutFacts
  <2> HIDE DEF kept
  <2>3. /\ DOMAIN CurrentMap' = DOMAIN kept \cup {edit.tag}
        /\ \A t \in DOMAIN kept \ {edit.tag} : CurrentMap'[t] = kept[t]
    <3> DEFINE next == With(kept, edit.tag, edit.definition)
    <3>1. /\ DOMAIN next = DOMAIN kept \cup {edit.tag}
          /\ \A t \in DOMAIN kept \ {edit.tag} : next[t] = kept[t]
      <4>1. edit.tag \in Tags /\ edit.definition \in Definitions
        BY <1>6, EditFields
      <4>2. kept \in TagMaps
        BY <2>2
      <4> QED BY <4>1, <4>2, WithFacts
    <3>2. CurrentMap' = next
      BY <2>1
    <3> HIDE DEF next
    <3> QED BY <3>1, <3>2
  <2>4. edit.previous # edit.tag
    BY <1>6 DEF Renames
  <2>5. Managed!Rename(edit.previous, edit.tag)
    BY <1>3, <1>6, <2>2, <2>3, <2>4 DEF Managed!Rename, Managed!Others
  <2> QED BY <1>2, <1>6, <2>5, EditFields DEF Managed!MapNext
<1> QED BY <1>4, <1>5, <1>6, EditFields

(* Only the rename changes the map, and it makes one edit.                 *)
LEMMA MapRefines ==
  ASSUME OneHandler, HostInv, HostInv', [HostNext]_hostVars
  PROVE  [Managed!MapNext]_CurrentMap
<1>1. ASSUME NEW h \in Handlers, Replace(h)
      PROVE  Managed!MapNext
  <2>1. /\ disk'[map_entry'] = Whole(Edited(CurrentMap, request[h]))
        /\ Accepts(Whole(CurrentMap), request[h])
    BY <1>1, ReplaceFacts, MapContent
  <2>2. CurrentMap' = Edited(CurrentMap, request[h])
    <3>1. CurrentMap' = disk'[map_entry'].map
      BY DEF HostInv, FilesInPlace, CurrentMap, MapAlwaysWhole
    <3> QED BY <2>1, <3>1, WholeFields
  <2>3. request[h] \in Edits
    BY <2>1, TypedThread DEF Accepts, Requests
  <2> QED BY <2>1, <2>2, <2>3, MapContent, EditIsAdmitted
<1>2. ASSUME disk'[map_entry'] = disk[map_entry]
      PROVE  CurrentMap' = CurrentMap
  BY <1>2 DEF CurrentMap, MapAlwaysWhole
<1>3. CASE UNCHANGED hostVars
  BY <1>2, <1>3 DEF hostVars
<1>4. ASSUME NEW h \in Handlers, NEW edit \in Requests, TakeRequest(h, edit)
      PROVE  disk'[map_entry'] = disk[map_entry]
  BY <1>4 DEF TakeRequest, fileVars
<1>5. ASSUME NEW h \in Handlers, OpenTemporary(h)
      PROVE  disk'[map_entry'] = disk[map_entry]
  <2> DEFINE inode == IF tmp_entry = Absent THEN created + 1 ELSE tmp_entry
  <2>1. inode # map_entry
    BY <1>5, HostAssumption DEF HostInv, HostTypeOK, FilesInPlace, Inodes,
                                Absent, HostAssumption
  <2>2. disk' = [disk EXCEPT ![inode] = Empty] /\ map_entry' = map_entry
    BY <1>5 DEF OpenTemporary
  <2> HIDE DEF inode
  <2> QED BY <2>1, <2>2 DEF HostInv, HostTypeOK
<1>6. ASSUME NEW h \in Handlers, WriteTemporary(h)
      PROVE  disk'[map_entry'] = disk[map_entry]
  <2>1. handle[h] # map_entry
    BY <1>6 DEF WriteTemporary, HostInv, TemporaryIsMine, FilesInPlace
  <2> QED BY <1>6, <2>1 DEF WriteTemporary, HostInv, HostTypeOK
<1>7. ASSUME NEW h \in Handlers, Fsync(h) \/ Cleanup(h)
      PROVE  disk'[map_entry'] = disk[map_entry]
  BY <1>7 DEF Fsync, Cleanup
<1>8. ASSUME PowerLoss
      PROVE  disk'[map_entry'] = disk[map_entry]
  BY <1>8 DEF PowerLoss, HostInv, HostTypeOK, FilesInPlace
<1> QED BY <1>1, <1>2, <1>3, <1>4, <1>5, <1>6, <1>7, <1>8 DEF HostNext

-----------------------------------------------------------------------------
LEMMA HostInvariant ==
  ASSUME OneHandler
  PROVE  HostSpec => []HostInv
BY HostInitially, HostStep, PTL DEF HostSpec

(* _write_apriltag_map: one request at a time, a failed write, a full disk *)
(* or a power loss at any step never leaves the map's path naming a file   *)
(* that is truncated, mixed or missing.                                    *)
THEOREM MapStaysWhole ==
  ASSUME OneHandler
  PROVE  HostSpec => []MapAlwaysWhole
<1>1. HostInv => MapAlwaysWhole
  BY DEF HostInv, FilesInPlace, MapAlwaysWhole
<1> QED BY <1>1, HostInvariant, PTL

(* RequestHandler.handle: an edit answered with success is on disk, one    *)
(* answered with an error has changed nothing, also after a power loss.    *)
THEOREM AnswersAreTrue ==
  ASSUME OneHandler
  PROVE  HostSpec => []AnswerTellsTheMap
<1>1. HostInv => AnswerTellsTheMap
  BY MapContent DEF HostInv, AnswerIsTrue, AnswerTellsTheMap
<1> QED BY <1>1, HostInvariant, PTL

(* upsert_apriltag and delete_apriltag with _write_apriltag_map implement  *)
(* ManagedMap: every step of the files is one whole edit that the map      *)
(* admits, or leaves the map as it is.                                     *)
THEOREM FilesRefineMap ==
  ASSUME OneHandler
  PROVE  HostSpec => FilesImplementMap
<1>1. HostInit => Managed!MapInit
  <2>1. HostInit => CurrentMap \in TagMaps
    BY HostInitially, MapContent
  <2> QED BY <2>1 DEF Managed!MapInit, Managed!TagMaps, TagMaps
<1>2. HostInv /\ HostInv' /\ [HostNext]_hostVars => [Managed!MapNext]_CurrentMap
  BY MapRefines
<1> QED BY <1>1, <1>2, HostInvariant, PTL
        DEF HostSpec, FilesImplementMap, Managed!MapSpec

-----------------------------------------------------------------------------
(* Any number of request threads.                                          *)

(* A thread that writes or syncs has a file open.                          *)
HandleIsOpen(h) == thread[h] \in {"write", "fsync"} => handle[h] \in Inodes

HostTypeInv == HostTypeOK /\ \A h \in Handlers : HandleIsOpen(h)

LEMMA TypesOfThread ==
  ASSUME HostTypeInv, NEW h \in Handlers
  PROVE  /\ thread[h] \in Steps /\ request[h] \in Requests
         /\ document[h] \in TagMaps /\ map_before[h] \in TagMaps
         /\ handle[h] \in Inodes \cup {Absent}
         /\ disk[map_entry] \in Contents /\ HandleIsOpen(h)
         /\ Empty \in Contents /\ Torn \in Contents /\ Whole(document[h]) \in Contents
BY DEF HostTypeInv, HostTypeOK, Contents

(* A thread moves on; the files stay typed.                                *)
LEMMA ThreadMoves ==
  ASSUME HostTypeInv, NEW h \in Handlers, NEW step \in Steps, Goes(h, step),
         NEW inode \in Inodes \cup {Absent}, handle' = [handle EXCEPT ![h] = inode],
         step \in {"write", "fsync"} => inode \in Inodes
  PROVE  /\ thread' \in [Handlers -> Steps]
         /\ handle' \in [Handlers -> Inodes \cup {Absent}]
         /\ \A k \in Handlers : HandleIsOpen(k)'
<1>1. thread \in [Handlers -> Steps] /\ handle \in [Handlers -> Inodes \cup {Absent}]
  BY DEF HostTypeInv, HostTypeOK
<1>2. thread' = [thread EXCEPT ![h] = step]
  BY DEF Goes
<1>3. ASSUME NEW k \in Handlers PROVE HandleIsOpen(k)'
  <2>1. CASE k = h
    BY <1>1, <1>2, <2>1 DEF HandleIsOpen
  <2>2. CASE k # h
    <3>1. thread'[k] = thread[k] /\ handle'[k] = handle[k]
      BY <1>1, <1>2, <2>2
    <3> QED BY <3>1 DEF HostTypeInv, HandleIsOpen
  <2> QED BY <2>1, <2>2
<1> QED BY <1>1, <1>2, <1>3

LEMMA TakeRequestTypes ==
  ASSUME HostTypeInv, NEW h \in Handlers, NEW edit \in Requests, TakeRequest(h, edit)
  PROVE  HostTypeInv'
<1> DEFINE content == disk[map_entry]
<1>1. /\ content \in Contents /\ document \in [Handlers -> TagMaps]
      /\ map_before \in [Handlers -> TagMaps] /\ request \in [Handlers -> Requests]
      /\ handle \in [Handlers -> Inodes \cup {Absent}]
  BY TypesOfThread DEF HostTypeInv, HostTypeOK
<1>2. UNCHANGED <<disk, synced, created, map_entry, tmp_entry, handle>>
      /\ request' = [request EXCEPT ![h] = edit]
      /\ map_before' = [map_before EXCEPT ![h] = IF content.whole THEN content.map ELSE @]
  BY DEF TakeRequest, fileVars
<1>3. /\ document' \in [Handlers -> TagMaps]
      /\ Goes(h, "open") \/ Goes(h, "error")
  <2>1. CASE Accepts(content, edit)
    <3>1. content.map \in TagMaps /\ edit \in Edits
      BY <1>1, <2>1, WholeContent DEF Accepts, Requests
    <3>2. Edited(content.map, edit) \in TagMaps
      BY <3>1, EditedType
    <3>3. document' = [document EXCEPT ![h] = Edited(content.map, edit)] /\ Goes(h, "open")
      BY <2>1 DEF TakeRequest
    <3> HIDE DEF content
    <3> QED BY <1>1, <3>2, <3>3
  <2>2. CASE ~Accepts(content, edit)
    BY <1>1, <2>2 DEF TakeRequest
  <2> QED BY <2>1, <2>2
<1>4. map_before' \in [Handlers -> TagMaps] /\ request' \in [Handlers -> Requests]
  <2>1. content.whole => content.map \in TagMaps
    BY <1>1, WholeContent
  <2> HIDE DEF content
  <2> QED BY <1>1, <1>2, <2>1
<1>5. handle' = [handle EXCEPT ![h] = handle[h]] /\ handle[h] \in Inodes \cup {Absent}
  BY <1>1, <1>2
<1>6. "open" \in Steps /\ "error" \in Steps
  BY DEF Steps
<1>7. /\ thread' \in [Handlers -> Steps] /\ handle' \in [Handlers -> Inodes \cup {Absent}]
      /\ \A k \in Handlers : HandleIsOpen(k)'
  BY <1>3, <1>5, <1>6, ThreadMoves
<1> QED BY <1>2, <1>3, <1>4, <1>7 DEF HostTypeInv, HostTypeOK

LEMMA OpenTemporaryTypes ==
  ASSUME HostTypeInv, NEW h \in Handlers, OpenTemporary(h)
  PROVE  HostTypeInv'
<1> DEFINE inode == IF tmp_entry = Absent THEN created + 1 ELSE tmp_entry
<1>1. /\ inode \in Inodes /\ created' \in Inodes
  BY HostAssumption
     DEF OpenTemporary, HostTypeInv, HostTypeOK, Inodes, Absent, HostAssumption
<1>2. /\ tmp_entry' = inode /\ handle' = [handle EXCEPT ![h] = inode]
      /\ disk' = [disk EXCEPT ![inode] = Empty] /\ synced' = synced \ {inode}
      /\ Goes(h, "write")
      /\ UNCHANGED <<map_entry, request, document, map_before>>
  BY DEF OpenTemporary
<1> HIDE DEF inode
<1>3. disk' \in [Inodes -> Contents] /\ synced' \subseteq Inodes
  BY <1>1, <1>2, TypesOfThread DEF HostTypeInv, HostTypeOK
<1>4. "write" \in Steps
  BY DEF Steps
<1>5. /\ thread' \in [Handlers -> Steps] /\ handle' \in [Handlers -> Inodes \cup {Absent}]
      /\ \A k \in Handlers : HandleIsOpen(k)'
  BY <1>1, <1>2, <1>4, ThreadMoves
<1> QED BY <1>1, <1>2, <1>3, <1>5 DEF HostTypeInv, HostTypeOK

LEMMA OtherStepTypes ==
  ASSUME HostTypeInv, NEW h \in Handlers,
         WriteTemporary(h) \/ Fsync(h) \/ Replace(h) \/ Cleanup(h)
  PROVE  HostTypeInv'
<1>1. handle = [handle EXCEPT ![h] = handle[h]] /\ handle[h] \in Inodes \cup {Absent}
  BY TypesOfThread DEF HostTypeInv, HostTypeOK
<1>2. Absent \in Inodes \cup {Absent}
      /\ {"fsync", "abandon", "replace", "cleanup", "ok", "dropped"} \subseteq Steps
  BY DEF Steps
<1>3. UNCHANGED <<created, request, document, map_before>>
  BY DEF WriteTemporary, Fsync, Replace, Cleanup
<1>4. /\ disk' \in [Inodes -> Contents] /\ synced' \subseteq Inodes
      /\ map_entry' \in Inodes /\ tmp_entry' \in Inodes \cup {Absent}
  <2>1. CASE WriteTemporary(h)
    BY <2>1, TypesOfThread DEF WriteTemporary, HostTypeInv, HostTypeOK, HandleIsOpen
  <2>2. CASE Fsync(h)
    BY <2>2, TypesOfThread DEF Fsync, HostTypeInv, HostTypeOK, HandleIsOpen
  <2>3. CASE Replace(h) \/ Cleanup(h)
    BY <2>3 DEF Replace, Cleanup, HostTypeInv, HostTypeOK
  <2> QED BY <2>1, <2>2, <2>3
<1>5. \E step \in Steps, inode \in Inodes \cup {Absent} :
         /\ Goes(h, step) /\ handle' = [handle EXCEPT ![h] = inode]
         /\ step \in {"write", "fsync"} => inode \in Inodes
  <2>1. CASE WriteTemporary(h)
    <3>1. handle' = handle /\ (Goes(h, "fsync") \/ Goes(h, "abandon")) /\ handle[h] \in Inodes
      BY <2>1, TypesOfThread DEF WriteTemporary, HandleIsOpen
    <3> QED BY <1>1, <1>2, <3>1
  <2>2. CASE Fsync(h)
    BY <1>2, <2>2 DEF Fsync
  <2>3. CASE Replace(h)
    <3>1. handle' = handle /\ (Goes(h, "cleanup") \/ Goes(h, "abandon"))
      BY <2>3 DEF Replace
    <3> QED BY <1>1, <1>2, <3>1
  <2>4. CASE Cleanup(h)
    BY <1>2, <2>4 DEF Cleanup
  <2> QED BY <2>1, <2>2, <2>3, <2>4
<1>6. /\ thread' \in [Handlers -> Steps] /\ handle' \in [Handlers -> Inodes \cup {Absent}]
      /\ \A k \in Handlers : HandleIsOpen(k)'
  BY <1>5, ThreadMoves
<1> QED BY <1>3, <1>4, <1>6 DEF HostTypeInv, HostTypeOK

LEMMA PowerLossTypes ==
  ASSUME HostTypeInv, PowerLoss
  PROVE  HostTypeInv'
<1>1. PICK lost \in SUBSET (Inodes \ synced) :
        disk' = [i \in Inodes |-> IF i \in lost THEN Empty ELSE disk[i]]
  BY DEF PowerLoss
<1>2. disk' \in [Inodes -> Contents]
  BY <1>1 DEF HostTypeInv, HostTypeOK, Contents
<1>3. thread' \in [Handlers -> Steps]
      /\ \A k \in Handlers : thread'[k] \in {"ok", "error", "dropped"}
  BY DEF PowerLoss, Steps
<1>4. handle' \in [Handlers -> Inodes \cup {Absent}]
  BY DEF PowerLoss
<1>5. \A k \in Handlers : HandleIsOpen(k)'
  BY <1>3 DEF HandleIsOpen
<1> QED BY <1>2, <1>3, <1>4, <1>5 DEF PowerLoss, HostTypeInv, HostTypeOK

LEMMA HostTypeInitially == HostInit => HostTypeInv
BY HostInitially DEF HostInv, HostTypeInv, HandleIsOpen, HostInit

LEMMA HostTypeStep == HostTypeInv /\ [HostNext]_hostVars => HostTypeInv'
<1> SUFFICES ASSUME HostTypeInv, [HostNext]_hostVars PROVE HostTypeInv'
  OBVIOUS
<1>1. CASE UNCHANGED hostVars
  BY <1>1 DEF hostVars, HostTypeInv, HostTypeOK, HandleIsOpen
<1>2. CASE HostNext
  BY <1>2, TakeRequestTypes, OpenTemporaryTypes, OtherStepTypes, PowerLossTypes DEF HostNext
<1> QED BY <1>1, <1>2

(* _write_apriltag_map with any number of request threads, which share one *)
(* temporary path: the map's path names a file of this file system at      *)
(* every moment, though not always a whole one, and what a thread holds is *)
(* what its step needs.                                                    *)
THEOREM HostTypesHold == HostSpec => []HostTypeOK
<1>1. HostTypeInv => HostTypeOK
  BY DEF HostTypeInv
<1> QED BY <1>1, HostTypeInitially, HostTypeStep, PTL DEF HostSpec
=============================================================================
