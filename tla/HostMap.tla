------------------------------- MODULE HostMap -------------------------------
(***************************************************************************)
(* The host manager's AprilTag map: requests arrive at a threading Unix    *)
(* socket server, every one is handled by a thread of its own without a    *)
(* lock, and an edit reads the map file, changes the document, writes it   *)
(* to a temporary file named after the process, and renames that over the  *)
(* map.                                                                    *)
(*                                                                         *)
(* Files are inodes: a directory entry names one, an open handle keeps     *)
(* writing to the one it opened.  Opening for writing truncates.  A write  *)
(* into a file another handle has written to leaves a mixture of both.     *)
(***************************************************************************)
EXTENDS Naturals, Functions

CONSTANTS Tags, Definitions,   \* tag ids; what a tag is defined to be
          Handlers,      \* request threads that may be under way at once
          WebEdit,       \* apriltag_map.web_edit_enabled
          InitialMap,    \* the map that was deployed
          MaxInodes      \* bound on the files created

TagMaps == UNION {[ids -> Definitions] : ids \in SUBSET Tags}

ASSUME HostAssumption ==
  /\ WebEdit \in BOOLEAN
  /\ InitialMap \in TagMaps
  /\ MaxInodes \in Nat \ {0}

Absent  == 0             \* no such directory entry, no open handle
Inodes  == 1 .. MaxInodes
Invalid == [kind |-> "invalid"]   \* a request that fails validation
Edits   ==
  [kind : {"upsert"}, tag : Tags, previous : Tags, definition : Definitions]
    \cup [kind : {"delete"}, tag : Tags]
Requests == Edits \cup {Invalid}

(* What a file holds: nothing, a whole document, or a mixture of two.       *)
Empty == [whole |-> FALSE, written |-> FALSE]
Torn  == [whole |-> FALSE, written |-> TRUE]
Whole(map) == [whole |-> TRUE, map |-> map]
Contents == {Empty, Torn} \cup {Whole(map) : map \in TagMaps}

VARIABLES disk,          \* what each inode holds
          synced,        \* the inodes whose content a power loss cannot harm
          created,       \* inodes used so far
          map_entry,     \* the inode that the map's path names
          tmp_entry,     \* the inode that this process's temporary path names
          thread,        \* where each handler is
          request,       \* what it is asked to do
          document,      \* its document in memory
          handle,        \* the inode it has open for writing
          map_before     \* history: the map when the request was taken up

hostVars == <<disk, synced, created, map_entry, tmp_entry, thread, request,
              document, handle, map_before>>
fileVars == <<disk, synced, created, map_entry, tmp_entry>>

Steps == {"idle", "open", "write", "fsync", "replace", "cleanup", "abandon",
          "ok", "error", "dropped"}

Goes(h, step) == thread' = [thread EXCEPT ![h] = step]

(* The document's tags object: del and assignment of a key.                 *)
Without(map, tag) == Restrict(map, DOMAIN map \ {tag})
With(map, tag, definition) ==
  [t \in DOMAIN map \cup {tag} |-> IF t = tag THEN definition ELSE map[t]]

Renames(edit) == edit.kind = "upsert" /\ edit.previous # edit.tag

-----------------------------------------------------------------------------

HostInit ==
  /\ disk = [i \in Inodes |-> IF i = 1 THEN Whole(InitialMap) ELSE Empty]
  /\ synced = {1}
  /\ created = 1
  /\ map_entry = 1
  /\ tmp_entry = Absent
  /\ thread = [h \in Handlers |-> "idle"]
  /\ request = [h \in Handlers |-> Invalid]
  /\ document = [h \in Handlers |-> InitialMap]
  /\ handle = [h \in Handlers |-> Absent]
  /\ map_before = [h \in Handlers |-> InitialMap]

(* variant: a rename may take the id of another tag.                        *)
AcceptsAnyRename(content, edit) ==
  /\ WebEdit
  /\ edit # Invalid
  /\ content.whole
  /\ edit.kind = "delete" => edit.tag \in DOMAIN content.map
  /\ Renames(edit) => edit.previous \in DOMAIN content.map

(* upsert_apriltag, delete_apriltag up to the edit: the policy, the         *)
(* validation of the request, the map that is read (a file that is no JSON  *)
(* document is an error), a tag that must exist, an id that must be free.   *)
Accepts(content, edit) ==
  /\ WebEdit
  /\ edit # Invalid
  /\ content.whole
  /\ edit.kind = "delete" => edit.tag \in DOMAIN content.map
  /\ Renames(edit) => /\ edit.previous \in DOMAIN content.map
                      /\ edit.tag \notin DOMAIN content.map

Edited(map, edit) ==
  IF edit.kind = "delete" THEN Without(map, edit.tag)
  ELSE With(IF Renames(edit) THEN Without(map, edit.previous) ELSE map,
            edit.tag, edit.definition)

TakeRequest(h, edit) ==
  /\ thread[h] \in {"idle", "ok", "error", "dropped"}
  /\ request' = [request EXCEPT ![h] = edit]
  /\ LET content == disk[map_entry] IN
       /\ IF Accepts(content, edit)
          THEN /\ document' = [document EXCEPT ![h] = Edited(content.map, edit)]
               /\ Goes(h, "open")
          ELSE UNCHANGED document /\ Goes(h, "error")
       /\ map_before' = [map_before EXCEPT
                           ![h] = IF content.whole THEN content.map ELSE @]
  /\ UNCHANGED <<fileVars, handle>>

(* temporary.open("w")                                                      *)
OpenTemporary(h) ==
  /\ thread[h] = "open"
  /\ tmp_entry # Absent \/ created < MaxInodes
  /\ LET inode == IF tmp_entry = Absent THEN created + 1 ELSE tmp_entry IN
       /\ created' = IF tmp_entry = Absent THEN inode ELSE created
       /\ tmp_entry' = inode
       /\ handle' = [handle EXCEPT ![h] = inode]
       /\ disk' = [disk EXCEPT ![inode] = Empty]
       /\ synced' = synced \ {inode}
  /\ Goes(h, "write")
  /\ UNCHANGED <<map_entry, request, document, map_before>>

(* handle.write, handle.flush; it fails on a full disk, and what it wrote   *)
(* until then stays.  The exception passes through the finally clause.      *)
WriteTemporary(h) ==
  /\ thread[h] = "write"
  /\ LET inode == handle[h] IN
       /\ synced' = synced \ {inode}
       /\ \/ disk' = [disk EXCEPT ![inode] = Whole(document[h])] /\ Goes(h, "fsync")
          \/ /\ disk[inode] \notin {Empty, Whole(document[h])}
             /\ disk' = [disk EXCEPT ![inode] = Torn]
             /\ Goes(h, "fsync")
          \/ disk' = [disk EXCEPT ![inode] = Torn] /\ Goes(h, "abandon")
  /\ UNCHANGED <<created, map_entry, tmp_entry, request, document, handle, map_before>>

(* variant: fsync is left out.                                              *)
NoFsync(h) ==
  /\ thread[h] = "fsync"
  /\ handle' = [handle EXCEPT ![h] = Absent]
  /\ Goes(h, "replace")
  /\ UNCHANGED <<fileVars, request, document, map_before>>

(* os.fsync; leaving the with block closes the handle.                      *)
Fsync(h) ==
  /\ thread[h] = "fsync"
  /\ synced' = synced \cup {handle[h]}
  /\ handle' = [handle EXCEPT ![h] = Absent]
  /\ Goes(h, "replace")
  /\ UNCHANGED <<disk, created, map_entry, tmp_entry, request, document, map_before>>

(* os.replace; FileNotFoundError when another thread has moved or removed   *)
(* the temporary file.                                                      *)
Replace(h) ==
  /\ thread[h] = "replace"
  /\ IF tmp_entry # Absent
     THEN /\ map_entry' = tmp_entry
          /\ tmp_entry' = Absent
          /\ Goes(h, "cleanup")
     ELSE /\ Goes(h, "abandon")
          /\ UNCHANGED <<map_entry, tmp_entry>>
  /\ UNCHANGED <<disk, synced, created, request, document, handle, map_before>>

(* variant: the failed write is answered like any other.                    *)
CleanupAnswersAll(h) ==
  /\ thread[h] \in {"cleanup", "abandon"}
  /\ tmp_entry' = Absent
  /\ handle' = [handle EXCEPT ![h] = Absent]
  /\ Goes(h, "ok")
  /\ UNCHANGED <<disk, synced, created, map_entry, request, document, map_before>>

(* The finally clause, and the answer: RequestHandler.handle answers        *)
(* success and ValueError; an OSError ends the thread without an answer.    *)
Cleanup(h) ==
  /\ thread[h] \in {"cleanup", "abandon"}
  /\ tmp_entry' = Absent
  /\ handle' = [handle EXCEPT ![h] = Absent]
  /\ Goes(h, IF thread[h] = "cleanup" THEN "ok" ELSE "dropped")
  /\ UNCHANGED <<disk, synced, created, map_entry, request, document, map_before>>

(* The machine loses power and the service comes up again under another     *)
(* process id: a temporary file stays behind unused, and what was not       *)
(* synced may be lost.  The rename itself is taken to be on disk when       *)
(* os.replace returns (the directory is not synced).                        *)
PowerLoss ==
  /\ \E lost \in SUBSET (Inodes \ synced) :
       disk' = [i \in Inodes |-> IF i \in lost THEN Empty ELSE disk[i]]
  /\ synced' = Inodes
  /\ tmp_entry' = Absent
  /\ thread' = [h \in Handlers |->
                  IF thread[h] \in {"ok", "error"} THEN thread[h] ELSE "dropped"]
  /\ handle' = [h \in Handlers |-> Absent]
  /\ UNCHANGED <<created, map_entry, request, document, map_before>>

HostNext ==
  \/ \E h \in Handlers :
       \/ \E edit \in Requests : TakeRequest(h, edit)
       \/ OpenTemporary(h)
       \/ WriteTemporary(h)
       \/ Fsync(h)
       \/ Replace(h)
       \/ Cleanup(h)
  \/ PowerLoss

HostSpec == HostInit /\ [][HostNext]_hostVars

-----------------------------------------------------------------------------

HostTypeOK ==
  /\ disk \in [Inodes -> Contents]
  /\ synced \subseteq Inodes
  /\ created \in Inodes
  /\ map_entry \in Inodes
  /\ tmp_entry \in Inodes \cup {Absent}
  /\ thread \in [Handlers -> Steps]
  /\ request \in [Handlers -> Requests]
  /\ document \in [Handlers -> TagMaps]
  /\ map_before \in [Handlers -> TagMaps]
  /\ handle \in [Handlers -> Inodes \cup {Absent}]

(* The map's path names a whole document at every moment, through every     *)
(* edit, failed write and power loss: a localizer that reloads it never     *)
(* reads a truncated or mixed file (_write_apriltag_map, "Atomically        *)
(* replace the only host-managed map file").                                *)
MapAlwaysWhole == disk[map_entry].whole

CurrentMap == IF MapAlwaysWhole THEN disk[map_entry].map ELSE InitialMap

(* The files implement the map of ManagedMap: whatever fails half way, the  *)
(* map changes by one whole edit that it admits, or not at all.             *)
Managed == INSTANCE ManagedMap WITH tags <- CurrentMap
FilesImplementMap == Managed!MapSpec

(* The answer tells the operator what is on disk, a power loss after it     *)
(* included: an edit answered with success is the map, and one answered     *)
(* with an error left it as it was (RequestHandler.handle, upsert_apriltag, *)
(* delete_apriltag).                                                        *)
AnswerTellsTheMap ==
  \A h \in Handlers :
    /\ thread[h] = "ok" => CurrentMap = Edited(map_before[h], request[h])
    /\ thread[h] = "error" => CurrentMap = map_before[h]
=============================================================================
