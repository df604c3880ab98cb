------------------------------ MODULE CardFiles ------------------------------
(***************************************************************************)
(* Files on the SD card: SdVolume and SdFile of src/libraries/SD/utility,  *)
(* as SDClass and File hand them to a sketch.                              *)
(*                                                                         *)
(* A FAT16 volume is three kinds of blocks: two copies of the FAT, the     *)
(* root directory, and one block per cluster.  The library keeps one block *)
(* in RAM (the cache) and writes it back when it needs another.  Every     *)
(* call is one action, computed as a function of a record that holds the   *)
(* volume and the file of the call; the record also says which of its      *)
(* transfers the card refuses, so that an error or the loss of power may   *)
(* come between any two of them.                                           *)
(*                                                                         *)
(* BlockSize stands for 512 and DirEntries for the length of the root      *)
(* directory; a FAT fills one block and a cluster is one block.            *)
(***************************************************************************)
EXTENDS Integers, Sequences, FiniteSets

CONSTANTS Names,         \* the files, numbers from 1 on: each is filled with its own
          ClusterCount, BlockSize, DirEntries,
          Modes,         \* the flags it opens files with
          MaxWrite,      \* bound: bytes of one write
          MaxCalls,      \* bound: calls of the sketch
          MaxFaults,     \* bound: calls in which the card fails
          MaxTransfers   \* bound: the transfer of a call that fails

VARIABLES card,      \* block -> content
          cache,     \* cacheBlockNumber_, cacheBuffer_, cacheDirty_, cacheMirrorBlock_
          start,     \* allocSearchStart_
          files,     \* the SdFile object of every name
          content,   \* history: what the calls that succeeded made of every file
          last,      \* history: what the last read returned, and what it should have
          trusted,   \* history: no call has failed for the card, or half way
          torn,      \* history: a call that frees clusters, or seeks back, was cut short
          calls, faults

vars == <<card, cache, start, files, content, last, trusted, torn, calls, faults>>

FatStart     == 0
MirrorStart  == 1                   \* fatStartBlock_ + blocksPerFat_
RootDirStart == 2
NoBlock      == -1                  \* 0XFFFFFFFF
Clusters     == 2 .. ClusterCount + 1
EOC          == ClusterCount + 2    \* any number from FAT16EOC_MIN on
Stale        == 0                   \* a byte nobody has written

clusterStartBlock(c) == RootDirStart + 1 + c - 2
VolumeBlocks == FatStart .. clusterStartBlock(ClusterCount + 1)

FREE    == [name |-> 0,  first |-> 0, size |-> 0]   \* DIR_NAME_FREE
DELETED == [name |-> -1, first |-> 0, size |-> 0]   \* DIR_NAME_DELETED
Slots   == 0 .. DirEntries - 1

Closed == [open |-> FALSE, flags |-> {}, first |-> 0, cur |-> 0, pos |-> 0, size |-> 0,
           dirIndex |-> 0]

\* A volume with the chain and the entries that are given; entries 0 and 1 of a
\* FAT are reserved and read as the end of a chain.
Volume(chain, entry, data) ==
  [b \in VolumeBlocks |->
     CASE b \in {FatStart, MirrorStart} ->
            [c \in 0 .. ClusterCount + 1 |-> IF c < 2 THEN EOC ELSE chain[c]]
       [] b = RootDirStart -> [i \in Slots |-> IF i = 0 THEN entry ELSE FREE]
       [] OTHER -> [i \in 1..BlockSize |-> data]]

\* Just formatted, or with a file of two clusters from an earlier session.
Formatted  == Volume([c \in Clusters |-> 0], FREE, Stale)
Written(n) == Volume([c \in Clusters |-> CASE c = 2 -> 3 [] c = 3 -> EOC [] OTHER -> 0],
                     [name |-> n, first |-> 2, size |-> BlockSize + 1], n)

NoCache == [blk |-> NoBlock, buf |-> <<>>, dirty |-> FALSE, mirror |-> 0]
NoRead  == [got |-> <<>>, want |-> <<>>]
Absent  == <<-1>>

Init == /\ \/ card = Formatted /\ content = [n \in Names |-> Absent]
           \/ /\ card = Written(1)
              /\ content = [n \in Names |-> IF n = 1 THEN [i \in 1..BlockSize + 1 |-> 1]
                                           ELSE Absent]
        /\ cache = NoCache
        /\ start = 2
        /\ files = [n \in Names |-> Closed]
        /\ last = NoRead
        /\ trusted = TRUE /\ torn = FALSE
        /\ calls = 0 /\ faults = 0

-------------------------------------------------------------------------------
\* The card: transfer number fuse of the call fails, and if power is lost so do
\* all that follow it.

Transfer(s, Done(_)) ==
  IF s.fuse = 1 THEN [s EXCEPT !.ok = FALSE, !.hit = TRUE, !.fuse = IF s.dark THEN 1 ELSE 0]
  ELSE Done([s EXCEPT !.fuse = IF @ = 0 THEN 0 ELSE @ - 1])

\* A block that the card does not have is refused.
writeBlock(s, b, data) ==
  Transfer(s, LAMBDA t : IF b \in VolumeBlocks THEN [t EXCEPT !.card[b] = data]
                         ELSE [t EXCEPT !.ok = FALSE])

readBlock(s, b, Store(_, _)) ==
  Transfer(s, LAMBDA t : IF b \in VolumeBlocks THEN Store(t, t.card[b])
                         ELSE [t EXCEPT !.ok = FALSE])

\* The rest of a function is skipped once a call in it has failed.
Then(s, Do(_)) == IF s.ok THEN Do(s) ELSE s
Fail(s)        == [s EXCEPT !.ok = FALSE]

-------------------------------------------------------------------------------
\* SdVolume: the cache, the FAT and the search for free clusters.

cacheFlush(s) ==
  IF ~s.dirty THEN s
  ELSE Then(Then(writeBlock(s, s.blk, s.buf),
                 LAMBDA t : IF t.mirror = 0 THEN t ELSE writeBlock(t, t.mirror, t.buf)),
            LAMBDA t : [t EXCEPT !.mirror = 0, !.dirty = FALSE])

\* Mutant: a dirty block gives way without being written.
cacheRawBlockAtOnce(s, b, forWrite) ==
  Then(IF s.blk = b THEN s
       ELSE readBlock(s, b, LAMBDA u, data : [u EXCEPT !.buf = data, !.blk = b]),
       LAMBDA t : [t EXCEPT !.dirty = @ \/ forWrite])

cacheRawBlock(s, b, forWrite) ==
  Then(IF s.blk = b THEN s
       ELSE Then(cacheFlush(s), LAMBDA t :
              readBlock(t, b, LAMBDA u, data : [u EXCEPT !.buf = data, !.blk = b])),
       LAMBDA t : [t EXCEPT !.dirty = @ \/ forWrite])

fatGet(s, c) ==
  IF c > ClusterCount + 1 THEN Fail(s)
  ELSE Then(cacheRawBlock(s, FatStart, FALSE), LAMBDA t : [t EXCEPT !.val = t.buf[c]])

fatPut(s, c, v) ==
  IF c < 2 \/ c > ClusterCount + 1 THEN Fail(s)
  ELSE Then(cacheRawBlock(s, FatStart, FALSE),
            LAMBDA t : [t EXCEPT !.buf[c] = v, !.dirty = TRUE, !.mirror = MirrorStart])

isEOC(c) == c >= EOC

\* A loop that ends after n rounds at the latest; a round may find nothing to do.
Loop(n, Round(_), s) ==
  LET after[i \in 0..n] == IF i = 0 THEN s ELSE Then(after[i - 1], Round) IN after[n]

\* One cluster is freed; val is the next.  Freed clusters read as 0, so that no
\* chain is longer than the volume.
freeCluster(s, c) == Then(fatGet(s, c), LAMBDA t : fatPut(t, c, 0))
freeChain(s, c) ==
  Loop(ClusterCount, LAMBDA t : IF isEOC(t.val) THEN t ELSE freeCluster(t, t.val),
       freeCluster([s EXCEPT !.start = 2], c))

\* The search goes round the FAT once; a group does not wrap.
Visited(from, i) == 2 + ((from - 2 + i) % ClusterCount)
\* Mutant: the last cluster of the round is not looked at.
EndOfGroupShort(fat, from, count) ==
  {Visited(from, i) : i \in {i \in count - 1 .. ClusterCount - 2 :
     /\ Visited(from, i) >= 2 + count - 1
     /\ \A j \in 0 .. count - 1 : fat[Visited(from, i) - j] = 0}}

EndOfGroup(fat, from, count) ==
  {Visited(from, i) : i \in {i \in count - 1 .. ClusterCount - 1 :
     /\ Visited(from, i) >= 2 + count - 1
     /\ \A j \in 0 .. count - 1 : fat[Visited(from, i) - j] = 0}}
First(set, from) == CHOOSE c \in set : \A d \in set :
                      (c - from) % ClusterCount <= (d - from) % ClusterCount

\* The new chain is marked from its end to its beginning, then joined to the old.
Linked(fat, bgn, end, cur) ==
  [c \in DOMAIN fat |-> CASE c = end -> EOC
                          [] c \in bgn .. end - 1 -> c + 1
                          [] c = cur /\ cur # 0 -> bgn
                          [] OTHER -> fat[c]]

allocContiguous(s, count, cur) ==
  Then(cacheRawBlock(s, FatStart, FALSE), LAMBDA t :
    LET from  == IF cur # 0 THEN cur + 1 ELSE t.start
        ends  == EndOfGroup(t.buf, from, count)
        end   == First(ends, from)
        bgn   == end - count + 1
    IN IF ends = {} THEN Fail(t)
       ELSE [t EXCEPT !.buf = Linked(@, bgn, end, cur), !.dirty = TRUE,
                      !.mirror = MirrorStart, !.val = bgn,
                      !.start = IF cur = 0 /\ count = 1 THEN bgn + 1 ELSE @])

-------------------------------------------------------------------------------
\* SdFile.  s.f is the object the call is made for.

addCluster(s) ==
  Then(allocContiguous(s, 1, s.f.cur), LAMBDA t :
    [t EXCEPT !.f.cur = t.val,
              !.f.first = IF @ = 0 THEN t.val ELSE @,
              !.f.flags = IF t.f.first = 0 THEN @ \cup {"dirty"} ELSE @])

\* The entry is brought up to date in the cache, and the cache written.
sync(s) ==
  IF ~s.f.open THEN Fail(s)
  ELSE Then(IF "dirty" \notin s.f.flags THEN s
            ELSE Then(cacheRawBlock(s, RootDirStart, TRUE), LAMBDA t :
                   [t EXCEPT !.buf[t.f.dirIndex].size = t.f.size,
                             !.buf[t.f.dirIndex].first = t.f.first,
                             !.f.flags = @ \ {"dirty"}]),
            cacheFlush)

\* Cluster number k of the chain from cluster c on.
follow(s, c, k) ==
  Loop(k, LAMBDA t : Then(fatGet(t, t.f.cur), LAMBDA u : [u EXCEPT !.f.cur = u.val]),
       [s EXCEPT !.f.cur = c])

\* Mutant: a position at the end of a cluster counts as in the next.
seekSetPast(s, pos) ==
  LET nCur == s.f.pos \div BlockSize
      nNew == pos \div BlockSize
      moved == IF nNew < nCur \/ s.f.pos = 0 THEN follow(s, s.f.first, nNew)
               ELSE follow(s, s.f.cur, nNew - nCur)
  IN IF ~s.f.open \/ pos > s.f.size THEN Fail(s)
     ELSE IF pos = 0 THEN [s EXCEPT !.f.cur = 0, !.f.pos = 0]
     ELSE Then(moved, LAMBDA t : [t EXCEPT !.f.pos = pos])

\* Backwards it follows the chain from the first cluster: cut short, it leaves the
\* object with its old position and a cluster before that of the position.
seekSet(s, pos) ==
  LET nCur == (s.f.pos - 1) \div BlockSize
      nNew == (pos - 1) \div BlockSize
      back  == nNew < nCur
      moved == IF back \/ s.f.pos = 0 THEN follow(s, s.f.first, nNew)
               ELSE follow(s, s.f.cur, nNew - nCur)
  IN IF ~s.f.open \/ pos > s.f.size THEN Fail(s)
     ELSE IF pos = 0 THEN [s EXCEPT !.f.cur = 0, !.f.pos = 0]
     ELSE IF ~moved.ok THEN [moved EXCEPT !.lost = @ \/ back]
     ELSE [moved EXCEPT !.f.pos = pos]

\* Clusters first, then the entry.
truncate(s, length) ==
  LET newPos == IF s.f.pos > length THEN length ELSE s.f.pos
      Shorter(t) ==
        IF length = 0
        THEN Then(freeChain(t, t.f.first), LAMBDA u : [u EXCEPT !.f.first = 0])
        ELSE Then(fatGet(t, t.f.cur), LAMBDA u :
               IF isEOC(u.val) THEN u
               ELSE Then(freeChain(u, u.val), LAMBDA w : fatPut(w, w.f.cur, EOC)))
  IN IF ~s.f.open \/ "write" \notin s.f.flags \/ length > s.f.size THEN Fail(s)
     ELSE IF s.f.size = 0 THEN s
     ELSE Then(Then(Then(seekSet(s, length), Shorter), LAMBDA t :
                 sync([t EXCEPT !.f.size = length, !.f.flags = @ \cup {"dirty"}])),
               LAMBDA t : seekSet(t, newPos))

openCachedEntry(s, i, mode) ==
  LET t == [s EXCEPT !.f = [open |-> TRUE, flags |-> mode \cap {"read", "write", "append", "sync"},
                            first |-> s.buf[i].first, cur |-> 0, pos |-> 0,
                            size |-> s.buf[i].size, dirIndex |-> i]]
  IN IF "trunc" \in mode THEN truncate(t, 0) ELSE t

\* The directory is read entry by entry up to the first that was never used.
Match(dir, n) == {i \in Slots : dir[i].name = n /\ \A j \in 0 .. i : dir[j] # FREE}
Unused(dir)   == {i \in Slots : dir[i] \in {FREE, DELETED}}
Lowest(set)   == CHOOSE i \in set : \A j \in set : i <= j

openFile(s, n, mode) ==
  IF s.f.open THEN Fail(s)
  ELSE Then(cacheRawBlock(s, RootDirStart, FALSE), LAMBDA t :
    CASE Match(t.buf, n) # {} ->
           IF {"creat", "excl"} \subseteq mode THEN Fail(t)
           ELSE openCachedEntry(t, Lowest(Match(t.buf, n)), mode)
      [] Match(t.buf, n) = {} /\ ~({"creat", "write"} \subseteq mode) -> Fail(t)
      [] Match(t.buf, n) = {} /\ Unused(t.buf) = {} -> Fail(t)
      [] OTHER ->
           LET i == Lowest(Unused(t.buf))
           IN Then(cacheFlush([t EXCEPT !.buf[i] = [FREE EXCEPT !.name = n], !.dirty = TRUE]),
                   LAMBDA u : openCachedEntry(u, i, mode)))

close(s) == Then(sync(s), LAMBDA t : [t EXCEPT !.f = Closed])

removeOpen(s) ==
  Then(Then(truncate(s, 0), LAMBDA t : cacheRawBlock(t, RootDirStart, TRUE)), LAMBDA t :
    cacheFlush([t EXCEPT !.buf[t.f.dirIndex] = DELETED, !.f = Closed]))

\* The cluster that the position is in, once it stands at the start of one.
readCluster(s) ==
  IF s.f.pos % BlockSize # 0 THEN s
  ELSE IF s.f.pos = 0 THEN [s EXCEPT !.f.cur = s.f.first]
  ELSE Then(fatGet(s, s.f.cur), LAMBDA t : [t EXCEPT !.f.cur = t.val])

writeCluster(s) ==
  IF s.f.pos % BlockSize # 0 THEN s
  ELSE IF s.f.cur # 0
       THEN Then(fatGet(s, s.f.cur), LAMBDA t :
              IF isEOC(t.val) THEN addCluster(t) ELSE [t EXCEPT !.f.cur = t.val])
  ELSE IF s.f.first = 0 THEN addCluster(s)
  ELSE [s EXCEPT !.f.cur = s.f.first]

\* A whole block goes past the cache unless the cache holds it.
readPiece(s, toRead) ==
  Then(readCluster(s), LAMBDA t :
    LET block  == clusterStartBlock(t.f.cur)
        offset == t.f.pos % BlockSize
        n      == IF toRead > BlockSize - offset THEN BlockSize - offset ELSE toRead
        Take(u, data) == [u EXCEPT !.out = @ \o SubSeq(data, offset + 1, offset + n),
                                   !.f.pos = @ + n]
    IN IF n = BlockSize /\ t.blk # block THEN readBlock(t, block, Take)
       ELSE Then(cacheRawBlock(t, block, FALSE), LAMBDA u : Take(u, u.buf)))
readOn(s, nbyte) ==
  Loop(nbyte, LAMBDA t : IF Len(t.out) = nbyte THEN t ELSE readPiece(t, nbyte - Len(t.out)), s)

\* fileSize_ - curPosition_ is unsigned.
read(s, nbyte) ==
  LET most == IF s.f.pos <= s.f.size /\ nbyte > s.f.size - s.f.pos
              THEN s.f.size - s.f.pos ELSE nbyte
  IN IF ~s.f.open \/ "read" \notin s.f.flags THEN Fail(s) ELSE readOn(s, most)

Stored(data, offset, src, n) ==
  [i \in 1..BlockSize |-> IF i \in offset + 1 .. offset + n THEN src[i - offset] ELSE data[i]]

\* The block of the position enters the cache: a new one without being read.
cacheForWrite(t, block, offset) ==
  IF offset = 0 /\ t.f.pos >= t.f.size
  THEN Then(cacheFlush(t), LAMBDA u :
         [u EXCEPT !.blk = block, !.dirty = TRUE, !.buf = [i \in 1..BlockSize |-> Stale]])
  ELSE cacheRawBlock(t, block, TRUE)

\* A whole block goes to the card at once, and out of the cache.
Forget(t, block) == IF t.blk = block THEN [t EXCEPT !.blk = NoBlock] ELSE t

writePiece(s, src) ==
  Then(writeCluster(s), LAMBDA t :
    LET block  == clusterStartBlock(t.f.cur)
        offset == t.f.pos % BlockSize
        n      == IF Len(src) > BlockSize - offset THEN BlockSize - offset ELSE Len(src)
    IN Then(IF n = BlockSize
            THEN writeBlock(Forget(t, block), block, SubSeq(src, 1, n))
            ELSE Then(cacheForWrite(t, block, offset), LAMBDA u :
                   [u EXCEPT !.buf = Stored(@, offset, src, n)]),
            LAMBDA u : [u EXCEPT !.f.pos = @ + n]))
writeOn(s, src) ==
  LET Left(t) == SubSeq(src, t.f.pos - s.f.pos + 1, Len(src))
  IN  Loop(Len(src), LAMBDA t : IF Left(t) = <<>> THEN t ELSE writePiece(t, Left(t)), s)

write(s, src) ==
  IF ~s.f.open \/ "write" \notin s.f.flags THEN Fail(s)
  ELSE Then(Then(Then(IF "append" \in s.f.flags /\ s.f.pos # s.f.size
                      THEN seekSet(s, s.f.size) ELSE s,
                      LAMBDA t : writeOn(t, src)),
                 LAMBDA t : IF t.f.pos <= t.f.size THEN t
                            ELSE [t EXCEPT !.f.size = t.f.pos, !.f.flags = @ \cup {"dirty"}]),
            LAMBDA t : IF "sync" \in t.f.flags THEN sync(t) ELSE t)

createContiguous(s, n, size) ==
  Then(openFile(s, n, {"creat", "excl", "read", "write"}), LAMBDA t :
    LET got == allocContiguous(t, (size - 1) \div BlockSize + 1, 0)
    IN IF got.ok
       THEN sync([got EXCEPT !.f.first = got.val, !.f.size = size,
                             !.f.flags = @ \cup {"dirty"}])
       ELSE Fail(removeOpen([got EXCEPT !.ok = TRUE])))

-------------------------------------------------------------------------------
\* SDClass and File: what a sketch calls.

\* SDClass::open leaves a file that may be written at its end.
sdOpen(s, n, mode) ==
  Then(openFile(s, n, mode), LAMBDA t :
    IF mode \cap {"append", "write"} = {} THEN t
    ELSE LET u == seekSet(t, t.f.size) IN [u EXCEPT !.ok = TRUE])

\* File::close gives the object back whatever SdFile::close answers.
fileClose(s) == [close(s) EXCEPT !.f = Closed]

\* SDClass::remove opens the file for itself.
sdRemove(s, n) == Then(openFile(s, n, {"write"}), removeOpen)

-------------------------------------------------------------------------------
\* The calls.

Begin(n, k, off) ==
  [card |-> card, blk |-> cache.blk, buf |-> cache.buf, dirty |-> cache.dirty,
   mirror |-> cache.mirror, start |-> start, f |-> files[n],
   ok |-> TRUE, val |-> 0, out |-> <<>>, fuse |-> k, dark |-> off, hit |-> FALSE, lost |-> FALSE]

\* The library carries on after a transfer that failed; a board that lost its
\* power starts afresh.
Leave(s, n) ==
  /\ card' = s.card
  /\ IF s.dark
     THEN cache' = NoCache /\ start' = 2 /\ files' = [m \in Names |-> Closed]
     ELSE /\ cache' = [blk |-> s.blk, buf |-> s.buf, dirty |-> s.dirty, mirror |-> s.mirror]
          /\ start' = s.start
          /\ files' = [files EXCEPT ![n] = s.f]

\* A call that is refused before it changes anything does no harm.
Harmless(s, before) == /\ ~s.hit
                       /\ \/ s.ok
                          \/ ~s.f.open
                          \/ [s EXCEPT !.ok = TRUE] = before

\* One call: Do computes it, text is what it makes of the file, and frees says
\* that it gives clusters back.  A torn volume, whose entries may lead to blocks
\* that hold no data, is followed no further, nor is an object whose cluster is not
\* that of its position.
Call(n, Do(_), text, frees) ==
  /\ ~torn
  /\ calls < MaxCalls /\ calls' = calls + 1
  /\ \E k \in 0 .. MaxTransfers, off \in BOOLEAN :
       LET s    == Do(Begin(n, k, off))
           good == Harmless(s, Begin(n, k, off))
       IN /\ k = 0 => ~off
          /\ k # 0 => faults < MaxFaults /\ s.hit
          /\ faults' = IF k = 0 THEN faults ELSE faults + 1
          /\ Leave(s, n)
          /\ trusted' = (trusted /\ good)
          /\ torn' = (torn \/ (frees /\ ~good) \/ (s.lost /\ ~s.dark))
          /\ content' = CASE ~trusted' -> [m \in Names |-> Absent]
                          [] trusted' /\ s.ok -> [content EXCEPT ![n] = text]
                          [] OTHER -> content
          /\ last' = IF trusted' /\ s.ok
                     THEN [got |-> s.out,
                           want |-> SubSeq(content[n], files[n].pos + 1,
                                           files[n].pos + Len(s.out))]
                     ELSE NoRead

Exists(n)     == content[n] # Absent
Emptied(mode) == "trunc" \in mode

Open(n) == \E mode \in Modes :
  /\ ~files[n].open
  /\ Call(n, LAMBDA s : sdOpen(s, n, mode),
          IF Exists(n) /\ ~Emptied(mode) THEN content[n] ELSE <<>>, Emptied(mode))

\* A sketch may also write what it opened for reading only, and is refused.
Overwritten(text, pos, src) ==
  [i \in 1 .. (IF pos + Len(src) > Len(text) THEN pos + Len(src) ELSE Len(text)) |->
     IF i \in pos + 1 .. pos + Len(src) THEN src[i - pos] ELSE text[i]]

Write(n) == \E len \in 1..MaxWrite :
  LET src == [i \in 1..len |-> n]
      pos == IF "append" \in files[n].flags THEN files[n].size ELSE files[n].pos
  IN /\ files[n].open
     /\ Call(n, LAMBDA s : write(s, src), Overwritten(content[n], pos, src), FALSE)

Read(n) == \E len \in 1..MaxWrite :
  files[n].open /\ Call(n, LAMBDA s : read(s, len), content[n], FALSE)

Seek(n) == \E pos \in 0 .. files[n].size :
  files[n].open /\ Call(n, LAMBDA s : seekSet(s, pos), content[n], FALSE)

Truncate(n) == \E length \in 0 .. files[n].size :
  files[n].open /\ Call(n, LAMBDA s : truncate(s, length), SubSeq(content[n], 1, length), TRUE)

Flush(n) == files[n].open /\ Call(n, sync, content[n], FALSE)
Close(n) == files[n].open /\ Call(n, fileClose, content[n], FALSE)

\* No sketch removes a file that it holds open.
Remove(n) == ~files[n].open /\ Call(n, LAMBDA s : sdRemove(s, n), Absent, TRUE)

CreateContiguous(n) == \E size \in {BlockSize + 1, ClusterCount * BlockSize} :
  /\ ~files[n].open
  /\ Call(n, LAMBDA s : createContiguous(s, n, size), [i \in 1..size |-> Stale], FALSE)

Done == (torn \/ calls = MaxCalls) /\ UNCHANGED vars

Next == \/ \E n \in Names : \/ Open(n) \/ Write(n) \/ Read(n) \/ Seek(n) \/ Truncate(n)
                            \/ Flush(n) \/ Close(n) \/ Remove(n) \/ CreateContiguous(n)
        \/ Done

Spec == Init /\ [][Next]_vars

-------------------------------------------------------------------------------
Entries == {card[RootDirStart][i] : i \in Slots} \ {FREE, DELETED}

TypeOK == /\ cache.blk \in VolumeBlocks \cup {NoBlock} /\ cache.dirty \in BOOLEAN
          /\ cache.mirror \in {0, MirrorStart}
          /\ start \in 2 .. ClusterCount + 2
          /\ \A n \in Names : /\ files[n].first \in Clusters \cup {0}
                              /\ files[n].dirIndex \in Slots

\* A read returns what the writes before it left at its position, also with
\* another file being written in between (SdFile::read, SdFile::write): the one
\* cached block, the search for clusters and the chains serve both.
SameBytes(got, want) == /\ Len(got) = Len(want)
                        /\ \A i \in 1..Len(got) : want[i] \in {got[i], Stale}
ReadsBackWritten == trusted => SameBytes(last.got, last.want)

\* The clusters that the bytes of an entry lie in, as the card has them.
ChainOf(e) ==
  LET link[i \in Nat] == IF i = 0 THEN e.first
                         ELSE IF link[i - 1] \in Clusters THEN card[FatStart][link[i - 1]]
                         ELSE link[i - 1]
  IN  {link[i] : i \in 0 .. (e.size + BlockSize - 1) \div BlockSize - 1}

\* Whatever the card refuses and whenever the power goes, an entry on the card
\* has clusters for all its bytes, in use and its own, unless a call that frees
\* clusters was cut short, or an object went on with the wrong cluster after a seek
\* was: the FAT reaches the card before the entry does.
EntriesBacked ==
  ~torn => \A e \in Entries :
             /\ \A c \in ChainOf(e) : c \in Clusters /\ card[FatStart][c] # 0
             /\ \A d \in Entries \ {e} : ChainOf(e) \cap ChainOf(d) = {}

\* With every file closed and everything written, the clusters in use are those
\* of the entries, and the two FATs are equal (freeChain, allocContiguous,
\* cacheFlush): nothing leaks and no mirror falls behind.
Used == {c \in Clusters : card[FatStart][c] # 0}
NothingLeaks ==
  trusted /\ ~cache.dirty /\ (\A n \in Names : ~files[n].open)
    => /\ Used = UNION {ChainOf(e) : e \in Entries}
       /\ card[FatStart] = card[MirrorStart]

\* A call on an open file goes wrong only because the card failed, because no
\* cluster is left (allocContiguous finds any that is free), or because of the
\* dirty block that a whole block was written over: write() takes the number of
\* the block away and leaves it dirty, and the cache can never be written again.
Fat    == IF cache.blk = FatStart THEN cache.buf ELSE card[FatStart]
Full   == \A c \in Clusters : Fat[c] # 0
Wedged == cache.dirty /\ cache.blk = NoBlock
LossHasReason == [][trusted /\ ~trusted' => faults' # faults \/ Full' \/ Wedged \/ Wedged']_vars
===============================================================================
