------------------------------- MODULE Store -------------------------------
(***************************************************************************)
(* The RocksDB store of an instance as Ankusa.Store uses it: one database,  *)
(* one write-ahead log.  A batch is atomic.  A batch written with           *)
(* `sync: false` is visible to every reader at once and survives a power    *)
(* loss only once a later fsync of the log covers it; a power loss keeps    *)
(* some prefix of the log that holds at least everything fsynced.           *)
(*                                                                          *)
(* The log is kept as the set of contents a power loss may leave, so that   *)
(* "is on disk" is a statement about every member of that set.              *)
(***************************************************************************)
VARIABLES
    db,      \* the contents every reader sees
    disk,    \* the contents a power loss now may leave
    since    \* while an fsync runs: the contents since it began; else {}

storeVars == <<db, disk, since>>

StoreInit(d) ==
    /\ db = d
    /\ disk = {d}
    /\ since = {}

(* The contents written while an fsync is running count towards it. *)
Grown(d) == IF since = {} THEN {} ELSE since \cup {d}

(* Store.write/3 with `sync: false`. *)
Write(d) ==
    /\ db' = d
    /\ disk' = disk \cup {d}
    /\ since' = Grown(d)

(* Store.write/3 with `sync: true`: fsyncs the log up to and with the batch. *)
WriteSync(d) ==
    /\ db' = d
    /\ disk' = {d}
    /\ since' = IF since = {} THEN {} ELSE {d}

(* Store.sync_wal/1 begins, returns :ok, or returns an error. *)
SyncWalBegin ==
    /\ since' = {db}
    /\ UNCHANGED <<db, disk>>

SyncWalOk ==
    /\ disk' = since
    /\ since' = {}
    /\ UNCHANGED db

SyncWalError ==
    /\ since' = {}
    /\ UNCHANGED <<db, disk>>

(* The host loses power (or the VM is killed) and the store is opened again. *)
PowerLoss ==
    \E d \in disk : db' = d /\ disk' = {d} /\ since' = {}
=============================================================================
