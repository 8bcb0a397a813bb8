------------------------------ MODULE QueueInv ------------------------------
(***************************************************************************)
(* The inductive invariant behind CommittedDurable: what the writer, the     *)
(* syncer and the store agree on between the write of a group and its ack.   *)
(***************************************************************************)
EXTENDS Queue

Commits(e) == {c \in DOMAIN e.reply : e.reply[c].kind = "committed"}

Stored(c, d) == c \in HookIds(d) \cup delivered

(* Every entry in the syncer's mailbox will be answered with an error. *)
Doomed == stalled /\ \A m \in resume : ~m.first

(* No unsynced group has rows on both sides of `x`. *)
Boundary(x) == \A u \in unsynced : u.upto > x => \A h \in u.hooks : h.seq > x

(* The store: what readers see may be what a power loss leaves. *)
StoreInv ==
    /\ db \in disk
    /\ since \subseteq disk
    /\ syncing # {} => db \in since
    /\ syncing = {} => since = {}

(* The fence: from a failed fsync to the resume, the syncer answers errors. *)
FenceInv ==
    /\ failed \/ fenced => stalled /\ resume = {}
    /\ ~(failed /\ fenced)
    /\ resume # {} => stalled
    /\ stalled => syncing = {}

(* A call in the pipeline waits, and is in one place of it. *)
CallInv ==
    /\ \A e \in inbox \cup syncing \cup batch : \A c \in DOMAIN e.reply :
          c \in Reqs /\ reply[c].kind = "waiting"
    /\ \A b \in batch, e \in inbox \cup syncing : DOMAIN b.reply \cap DOMAIN e.reply = {}
    /\ \A e \in inbox, f \in syncing : DOMAIN e.reply \cap DOMAIN f.reply = {}
    /\ \A p \in Pens : reply[p].kind = "committed" => \A d \in disk : p \notin d.pen

(* The group being written starts at the writer's next seq. *)
BatchInv ==
    /\ \A b, e \in batch : b = e
    /\ \A b \in batch :
          /\ b.upto >= next_seq /\ applied = b.upto
          /\ b.prev < next_seq /\ Boundary(b.prev)
          /\ \A h \in b.hooks : h.id \in DOMAIN b.reply /\ next_seq <= h.seq /\ h.seq <= b.upto
          /\ \A c \in Commits(b) : \E h \in b.hooks : h.id = c
    /\ batch = {} => applied < next_seq /\ Boundary(applied)

(* Seqs: everything assigned is below the next one, and the marks fall between groups. *)
SeqInv ==
    /\ durable < next_seq /\ Boundary(durable)
    /\ \A h \in db.hooks : h.seq < next_seq
    /\ \A u \in unsynced : u.upto < next_seq
    /\ \A e \in inbox \cup syncing : e.upto < next_seq /\ Boundary(e.upto)
    /\ \A m \in resume : m.seq < next_seq /\ Boundary(m.seq)

(* Entries: unless doomed, their hooks are stored; covered ones are safe. *)
EntryInv ==
    /\ ~Doomed => \A e \in inbox \cup syncing : \A c \in Commits(e) :
          Stored(c, db) /\ (e.upto <= durable => Safe(c))
    /\ \A e \in syncing : \A c \in Commits(e) : \A d \in since : Stored(c, d)
    /\ \A e \in inbox \cup syncing : \A c \in Commits(e) : \A h \in db.hooks :
          h.id = c => h.seq <= e.upto
    /\ \A e \in inbox, f \in syncing : Commits(e) = {} \/ e.upto > f.upto
    /\ \A e \in inbox, m \in resume : m.first => Commits(e) = {} \/ e.upto > m.seq

(* An acked hook is below the durable mark, out of reach of the fence. *)
AckInv ==
    \A c \in Calls : reply[c].kind = "committed" =>
        Safe(c) /\ \A h \in db.hooks : h.id = c => h.seq <= durable

PipelineInv == StoreInv /\ FenceInv /\ CallInv /\ BatchInv /\ SeqInv /\ EntryInv /\ AckInv

(* No group a fence may still delete shares a seq with a redriven hook. *)
RedriveApart ==
    \A u \in unsynced : \A g \in u.hooks :
        g.seq <= u.upto /\ \A h \in db.hooks : h.id \in Redrives => g.seq # h.seq

CursorInv == CursorExact /\ RedriveApart

(* The seq is below the marker of each of the contents: a writer that starts over *)
(* one of them does not give it out again.                                        *)
Below(s, contents) == \A d \in contents : s < d.next_seq

(* Acked seqs differ, and no power loss takes the marker back to one of them. *)
AckSeqs ==
    /\ SeqsDistinct
    /\ db.next_seq <= next_seq
    /\ \A c \in Calls : reply[c].kind = "committed" => Below(reply[c].seq, disk)

(* The group being written gives out seqs of its own, from the next one on. *)
BatchSeqs ==
    \A b \in batch : \A c \in Commits(b) :
        /\ next_seq <= b.reply[c].seq /\ b.reply[c].seq <= b.upto
        /\ \A k \in Commits(b) : k # c => b.reply[k].seq # b.reply[c].seq

(* The marker is past the seqs the syncer will hand to callers: in the store at     *)
(* once, in what a power loss leaves when their fsync returns or a write covers it. *)
EntrySeqs ==
    /\ \A e \in inbox \cup syncing : Commits(e) # {} =>
          /\ e.upto < db.next_seq
          /\ e.upto <= durable => Below(e.upto, disk)
    /\ \A e \in syncing : Commits(e) # {} => Below(e.upto, since)
    /\ \A e \in inbox \cup syncing : \A c \in Commits(e) :
          /\ e.reply[c].seq <= e.upto
          /\ \A f \in inbox \cup syncing : \A k \in Commits(f) :
                k # c => f.reply[k].seq # e.reply[c].seq
          /\ \A k \in Calls : reply[k].kind = "committed" => reply[k].seq # e.reply[c].seq

SeqsInv == AckSeqs /\ BatchSeqs /\ EntrySeqs

(* The inductive invariant: the types, and what the writer, the syncer and the store *)
(* agree on between the write of a group and its ack.                                *)
IInv == TypeOK /\ PipelineInv
=============================================================================
