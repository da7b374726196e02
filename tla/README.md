# A verification project for ext4-dos

ext4-dos gives DOS programs access to ext4 volumes.  A C library (`src/ext4`,
`src/blockdev`, `src/partition`, `src/util`) reads and writes the volume through
a jbd2 journal; a resident program (`tools/tsr.c`) answers DOS's network
redirector calls with it.  Everything runs to completion on one thread.  What
makes it hard is not interleaving but interruption: power is lost between any
two block writes, a write fails, another system left the log dirty, DOS comes
back with a handle whose file is gone.

## Inventory

| part | state it keeps | operations | talks to |
|---|---|---|---|
| journal (`journal.c`) | on disk: log blocks, `s_start`, `s_sequence`; in memory: `jbd.start`, `jbd.sequence`, replay map, revoke table | init, replay (SCAN, REVOKE, FLUSH or BUILD), checkpoint, commit, lookup | block device; called by the volume and by every write operation |
| volume (`fs.c`) | superblock copy, group descriptor cache | open, read_block, bgd_get, bgd_invalidate | journal (lookup before every read), device |
| files and directories (`extent.c`) | none between calls; static block buffers | create, extend, mkdir, rmdir, remove, truncate, rename, cross-directory rename, write in place | reads through the volume, writes through journal transactions |
| allocation (`extent.c`) | bitmaps, group descriptors, superblock counters on disk | find_free_inode, find_free_block, free_one_data_block | as above |
| extent trees (`extent.c`) | none | lookup, read | volume |
| directory blocks (`dir.c`, `extent.c`) | none | iterate, find slot, find entry | volume |
| hashed directories (`htree.c`) | none | hash, descent, insert into leaf | volume |
| inodes, features, superblock | none | parse, gate, checksum | volume |
| partition table (`mbr.c`) | none | find a Linux partition | device |
| devices (`blockdev/`) | position | read, write, writable | BIOS int 13h or stdio |
| redirector (`tsr.c`) | 8 open slots, search state in DOS's blocks, its drive letter, the vectors it replaced, error text | about 20 INT 2Fh AH=11h functions; installation and removal | DOS calls it; it calls the library; other resident programs share its interrupts |

What makes each part correct:

- journal: a transaction shows in full or not at all, whatever fails, and an
  answered one is not lost; recovery may be interrupted and repeated; a dirty log
  of another system is read for what it means or refused; reads between operations
  never show a mixture, on a mount that found its journal; without one nothing is
  written; a mount comes to an end and leaves the log clean.
- files, directories, allocation: between any two transactions no block has two
  owners, no live block is free in its bitmap, every name leads to an allocated
  inode, link counts agree with names, no update of a shared block is lost.
- extent trees, directory blocks, hashed directories: what is looked up is what was
  put in; records tile their block.
- redirector: a slot stands for the file it was opened on, a search returns every
  name once, an alias names one file; it comes into memory and leaves it without
  breaking another program's chain or taking its drive.

## Modules

| module | what it models |
|---|---|
| `JournalFormat` | log blocks, tags, escape, sequence and position arithmetic |
| `Journal` | mount with and without the journal, replay, checkpoint, commit, read, failures: one action per block write, per iteration of `walk_log`, or per tag |
| `StoreOverlay`, `AtomicStore` | the abstract specification: a store that changes by whole transactions |
| `JournalCorrect` | the refinement mapping from `Journal` to `AtomicStore`, the invariants and action properties |
| `JournalLive` | `Journal` with a moment after which nothing fails, and the liveness of a mount |
| `JournalInv` | the inductive invariant of `Journal`, in named parts |
| `JournalProofs` | types, headers, memory against disk and the live log; that `JournalInv`'s invariant is inductive, reads, the refinement of `AtomicStore`, that no own log is refused, proved |
| `OverlayProofs` | what a list of block writes leaves in a block, and paths of a relation over numbers, proved |
| `ForeignLog` | what a log another system left means, and what the driver makes of it |
| `ForeignLogInv` | what a log that somebody wrote is like, and the inductive invariant of recovering it |
| `ForeignLogProofs` | headers around the ring, sequence numbers, revokes and copies; each step of each pass; that recovery shows what the log means and refuses it only beyond the driver's limits, and what reads show on a mount without its journal, proved |
| `FsImage` | the volume as blocks (bitmaps, descriptors, inode table, directory and data blocks), and the transaction each operation stages |
| `FileOps` | the operations of `extent.c`, one action per transaction, over the store that `AtomicStore` promises |
| `Namespace` | the abstract specification: a tree of names that changes one operation at a time |
| `FileOpsCorrect` | the invariants of the volume and the mapping from `FileOps` to `Namespace` |
| `FileOpsInv` | the inductive invariants of `FileOps`, in named parts, and what a volume to begin with must be |
| `FsImageProofs` | what taking and freeing blocks and inodes, and the other transactions, do to bitmaps, counters, inodes and extents, to the tree of names and to the names a program is told; that each transaction leaves a sound volume |
| `FileOpsProofs` | what each transaction leaves in use and in files; that every action keeps the invariants; blocks, counters, names, types, leaks and contents, and the refinement of `Namespace`, proved |
| `OpenFiles` | the redirector's open slots over `FileOps`: open, create, replace, write, cut, close, delete |
| `OpenFilesCorrect` | what a handle keeps standing for, and that handles only do file operations |
| `OpenFilesInv` | what ties handles and volume together, as one inductive invariant |
| `OpenFilesProofs` | that a handle keeps its file, its copy stays the volume's and reads that file, and that handles implement `FileOps`, proved |
| `DirBlock` | one directory block: the walk over its records, insertion into slack, removal by merging, renaming in place, the checksum record |
| `Directory` | directories of several blocks, linear and hashed, and what the redirector's calls by path do to them |
| `DirSearch` | `Directory` with a search open over it (FindFirst, FindNext) |
| `DirCorrect` | tiling, the mapping from `Directory` to `Namespace`, aliases, the index, searches |
| `DirInv` | the inductive invariant of `Directory`, in named parts, and what the directories of a volume to begin with must be |
| `DirProofs` | what each edit does to a block, a directory and the tree; that every call keeps the invariant; tiling, the index, names, aliases and the refinement of `Namespace`, proved |
| `Resident` | staying resident and removal among other resident programs |
| `ResidentProofs` | chains and letters, proved |
| `MCJournal`, `MCJournalLive`, `MCForeignLog`, `MCFileOps`, `MCOpenFiles`, `MCDirectory`, `MCResident` | the instances TLC checks |

The three layers fit together by their abstract specifications: `Journal` implements
`AtomicStore`; `FileOps` takes a commit to be what `AtomicStore` says it is (in full,
not at all, or in full with the checkpoint failing and no commit until the next
mount); `OpenFiles` makes on the volume only steps of `FileOps`.  `Namespace` is
implemented twice: by `FileOps`, where an operation may be cut apart and a directory
is a table of entries, and by `Directory`, where an operation is one step and a
directory is blocks of records.

### How `Journal` corresponds to the code

Variables are grouped as the code's state is: `home`, `log`, `jStart`, `jSeq` are
the disk (file-system blocks in place, log blocks, the two fields of the journal
superblock); `writable`, `start`, `seq`, `rec`, `active`, `map`, `revoked` are
`struct ext4_fs`; `walk` is `walk_log`'s and `iterate_descriptor_tags`' locals; `txn`,
`idx` are the arguments and the loop index of `ext4_journal_commit` or
`ext4_journal_checkpoint`; `pc` is where the call in progress is; `reply` is its
return code.

A content is reduced to what the code tells apart: whether its first word is the
journal magic, zero or something else; RECOVER, which matters in the superblock
only; and an opaque body.  Checksums are what they cover: a tag carries the
sequence number and the content it was computed over, a header a flag that says
its own checksum matches.

`Open` is `ext4_journal_init` where it finds the journal.  `OpenBare` is a mount where it does
not: the volume has none, its inode or superblock cannot be read, or a check on extents, magic,
block size or features fails (its returns -1 to -11).  `fs.c:44` then mounts all the same, with
`jbd.present` 0, which is `pc = "bare"`: no replay and no checkpoint, reads go to the blocks in
place, and every commit is refused (`journal.c:643`).  The returns -10 and -11 come after
`jbd.start` and `jbd.sequence` were read, the others leave them 0, and `OpenBare` has both.  It
may happen at any mount: a failed read comes and goes, while an unsupported journal fails at all
of them, which is one of the histories.

A walk is `WalkStop`, `WalkMismatch`, `WalkCommit`,
`WalkRevoke`, `WalkDescriptor`, and per tag `TagSkip`, `TagFlush`, `TagBuild`,
`TagRefused`, `TagsDone`.  `CommitSetRecover` to `CommitJsb` are the numbered steps of
`ext4_journal_commit`; `CkptFlush`, `CkptJsb`, `CkptSb` are `ext4_journal_checkpoint`, at
the end of a mount and as step 7 of a commit.

Failures: a read can fail.  Of the volume's superblock (`ext4_fs_open`'s -1 to -3) or of a log
block during replay (-6) it refuses the mount (`ReadError`); of the journal's inode or superblock
it makes the mount a bare one (`OpenBare`).  Any block write can be cut short, leaving a block that is neither old nor
new, by a power cut (`Crash`) or with an error code (`WriteError`); a write can also
be reported as failed after it happened.  The two updates that a single sector
carries, `s_start`/`s_sequence` and the RECOVER bit, happen or do not happen.  One
assumption about the device is made: a failed write of the journal superblock in
step 5 of a commit did not happen (else memory calls clean a log that is not).

### How `FsImage` and `FileOps` correspond to the code

`store` maps block names to contents, as a reader of the mounted volume sees them.
Each operator `...Tx` is the list of `(block, buffer)` pairs an operation stages, in
its order.  A buffer is a private copy read before the transaction, with this
operation's patch in it: an inode-table block is staged whole, so that two copies of
one block in one transaction overwrite one another as they do in the code.
`Candidates`, `AllocBlk`, `AllocIno` are the first-free scans over groups whose counter
is not zero; `Grown` and `Append1` are what `ext4_file_extend_block` does to the tree,
`Kept`, `Doomed`, `Counted` what truncate and unlink do.

`Meta` are the blocks that hold the groups' own bitmaps and tables.  A group may be
marked as having no bitmap on disk yet (`uninit`); `BlkBits` and `InoBits` are then what
`init_uninit_bitmap` and the branch of `find_free_inode` make up, and the first
allocation writes the map and takes the mark away.  `unused` is the descriptor's
count of inodes at the end of its table that were never used, which an allocation
lowers.

All of this is a mount that found its journal.  Without it `ext4_journal_commit` refuses every
transaction, so that nothing here can change the volume.

`op` is an operation between two of its transactions: mkdir and rmdir are two,
unlink and truncate one per freed block and a last one.  `CommitOk` and
`CheckpointFails` are the two ways a commit reaches the log; `Interrupt` is a refused
commit or a power cut between two; `dirty` is `jbd.start # 0`, which refuses every
commit until `Remount`.

`interrupted` and `overlapped` are history: which operations ended between two
transactions, and which staged two different copies of one block.  `Exposed` names
the two disorders in which nothing is promised, because the code does not keep it:
a freeing operation cut in half, and a mkdir that lost its new inode.  Each has a run
that shows it (`cut_truncate`, `nested_mkdir`); the other runs check everything up to
the step that gets there, and no further (`Calm`).

### How `OpenFiles` corresponds to the code

`slots` is `g_open`, with the slot's inode reduced to size and extents; `held` is DOS's
idea of what an SFT stands for; `call` is a handler between two transactions of the
library: the loop of an append or of a set-end, the loop of an in-place write, or one
of the three handlers that call truncate.  DOS chooses positions and counts: a
position shows as the length to reach, the length to cut to, or the blocks to
overwrite.  The SFT's own size and position fields are DOS's and are left out.

`stale` is history: the SFTs whose file was removed, replaced, cut or lengthened
through another handle or by name; `spoiled` is set by the first write through one, and
nothing is explored behind it (`Valid`).

### How `DirBlock`, `Directory` and `DirSearch` correspond to the code

A block is a function from offsets, counted in units of four bytes, to what was last
written there; `Offsets` is the walk that `ext4_dir_iter`, `dir_find_slot_for_entry`,
`dir_find_entry_by_inode` and the others make by `rec_len`, so that a removed record's bytes stay but
are not seen.  `Slots`, `Inserted`, `Removed`, `Renamed` are the slot helpers of `extent.c`;
`Stamped` is `dir_block_set_tail_csum`.

`dirs` holds every directory: its blocks, whether it is hashed, how deep and what its index
is, and of how many extents.  `listing` is what a reader sees of it and follows
from `dirs`.  `Leaf` is the descent of `ext4_htree_find_leaf`; `Resolve` is an exact lookup
and then the second try by 8.3 form; `MovePlaces` and `MoveHolding` are the narrower
search that `ext4_rename_xdir` makes.  A call is one step and succeeds; `OtherCall` is any
other, which leaves its path behind.

The search block's entry number is `next`; `path` is the SDA field from which `FindNext` compiles
its pattern again.  `FindFirst` begins the search that is followed; `OtherSearch` is the
FindFirst of another one, of which only the path it leaves in the SDA matters, and which can put
back the very path another call replaced.  The rest of `search` is history: `Meanwhile` notes
there whether a call made matching entries come or go.

The hash of a name, its 8.3 form, the names a pattern matches and the size of a
record are constants.

### How `Resident` corresponds to the code

`vec` are the vectors of INT 21h and 2Fh, `prev` what each program in memory found there
(`prev_int21`, `prev_int2f`), `cds` DOS's drive table as far as the owner of a letter,
`entry` is `g_cds_entry`.  A program's run, up to staying resident or ending, is one step.  `ComesTo` are
the handlers that a call passes through when each passes it on, as the least set closed
under that; `Reached` starts at the vector, `Answering` are the copies a removal call can
stop at.  The removal call goes down the
chain; DOS may refuse to free the memory, and then the copy stays, unhooked.  Other
programs are supposed to be well-behaved: they unhook only what they are on top of.

## Runs

| run | what it checks | bounds |
|---|---|---|
| `journal` | the driver's own volumes: atomicity and durability as refinement of `AtomicStore`, reads, memory against disk, the live log kept, own logs never refused; the log kept by mounts that did not find their journal | 3 blocks with the superblock among them, transactions of 1 and 2 blocks with and without the escape, log of 4 blocks, 3 commits' sequence numbers, any number of failures and mounts, with the journal and without |
| `journal_live` | a mount of a dirty log ends with it clean, after failures cease; transactions that hold a block twice, without checksums, are atomic, and a read-only mount shows their last copy | transactions of up to 3 blocks, one with the superblock first, log of 5 |
| `foreign_log` | recovery shows what the log means; a mount without its journal shows only old blocks, copies in the log, or blocks torn by a failed write; refusals have a reason; the walk ends | 174 logs of 1 to 3 transactions, 8 sequence numbers, so that positions and sequence numbers wrap; every arrangement of 4 headers, repeated around a ring of 12 |
| `file_ops` | no block with two owners, counters, file contents, nothing lost, names and sizes change one operation at a time | 2 groups of 2 inodes and 4 blocks, three of the eight the groups' own, files of up to 5 bytes in blocks of 2, leaves of 2 extents, one failure; a fresh volume whose second group has no bitmaps yet, and a full one |
| `names` | the same for deep trees, and that they stay trees | 4 groups of 2 inodes and 1 block, 3 usable inodes besides the root, two names, no failures |
| `open_files` | a handle keeps its file, its inode copy stays the volume's, what it reads is that file, handles only do file operations | 3 SFTs over 2 slots, 2 inodes, 2 free blocks, files of up to 4 bytes, one failure and any number of restarts |
| `directory` | records tile their block, names change one call at a time, a call takes the entry it names, aliases stay distinct, the index covers what was inserted, searches show all once | 4 names of 3 to 6 units, two of which DOS can spell and one of which is another's 8.3 form, 5 inodes, blocks of 15 units with a checksum record; a linear root of two blocks, a hashed root, a directory with a two-level index; up to 2 changes during a search, any number without |
| `resident` | interrupt chains stay whole, letters lead to who took them, no drive is taken that nobody named | 2 copies, 2 other programs, letters D: and E: and one behind DOS's table |
| `stale_tail`, `cut_truncate`, `nested_mkdir`, `hashed_rmdir` | see Findings | small instances of the above |

Two commits of different length after one another, with a failure between, are
enough for a stale tail of the driver's own; three sequence numbers allow that
twice.  A log that just fits the longest transaction makes the walk come back to its
start behind the commit block, one more block lets it run into what an earlier
epoch left.  In `foreign_log` there are two log positions from which a transaction
wraps and sequence numbers at both ends of the space.

In `file_ops` blocks are few enough that two growing files fragment each other, fill
their two extents and then depend on the one block behind the last, and that the
volume runs out inside a mkdir; 5 bytes in blocks of 2 give ends on and off a block
boundary.  `names` has an inode-table block per two inodes, so that the parents of a
rename share one or do not, and four free blocks' worth of directories, so that they
nest three deep.  In `open_files` two files compete for the blocks behind one another
and a third SFT finds the table full.

In `directory` a block just holds the dots, the checksum record and one or two entries,
so that an entry goes into slack, into a freed first record, into a second block,
or nowhere; the directory with the two-level index has two extents, which is why rmdir
refuses it (with one extent it does not: `hashed_rmdir`).  Two changes are enough to
remove an entry before the cursor of a search and add one.  Every call by path takes the path
away from the search and `OtherSearch` gives it back, so that searches which are checked see
changes between two of their steps.  In `resident` two
other programs can hook above, between and below two copies, one vector each or both.

`VIEW` leaves out of `directory` the bytes of removed records, the path but for whether it is
the open search's pattern, and what no property speaks of in a search: all of it once FindNext saw
another path or entries both came and went, what it had to show once one went, whether it showed
one twice once one came.  No other step reads them.  `VIEW` leaves out of `file_ops`, `names` and `open_files` the contents of data blocks that
are free and in no inode: the code writes such a block whole before anybody reads
it.  `open_files` also leaves out the inode copy of a stale slot, which only steps
that set `spoiled` read.  Names and SFTs are interchangeable, and so are copies and other
programs in `resident` (`SYMMETRY`).

Deadlock checking is off where the system may stop: in `journal_live` when failures are
over and sequence numbers at their bound; in `directory`, where only the bound on changes
stops a call; in the violation runs and the file runs at the states the constraints cut off, and when a volume of that size offers nothing
more to do.

### Fairness

A call of the library runs its loops to completion; nothing else runs on the
machine meanwhile.  So the driver's own steps (`Driver`) are weakly fair, and nothing
else is: nobody has to mount, commit or fail.  `MountCleansLog` also supposes that
failures cease, at a moment the specification chooses and the driver does not see.

### Findings

- `stale_tail`: the sequence number a mount leaves in memory after replaying several
  transactions is the first one's; the next commit reuses it, and an old second
  transaction behind it can be replayed over newer data.
- `cut_truncate`: truncate frees blocks before the inode lets go of them; cut short, it
  leaves blocks that the next append of another file is given.  A comment at
  `extent.c:2190` promises that this never aliases.
- `nested_mkdir`: mkdir stages the new inode and its parent's in two copies of one
  inode-table block when they share it; the parent's copy wins and the new directory
  has no data block.
- `hashed_rmdir`: rmdir reads a directory's first block to see whether it is empty; a hashed
  directory in one extent has its names in later blocks and is removed with them.

### Other disagreements

Met while modelling; they have no run of their own.

- `ext4_journal_commit` enters a block staged twice twice into the replay map;
  `ext4_journal_lookup` takes the first copy, flush and replay write the last.  Between a
  failed checkpoint and the next mount reads of such a block show the first
  (`journal.c:500`, `journal.c:826`).
- A volume whose journal was not found is mounted without it (`fs.c:55`), over a log that is dirty
  or was half replayed by an earlier mount.  Then reads mix replayed blocks and old ones, which is
  what the comment at `fs.c:46` refuses mounts for.  `features.h:49` says that on-disk state is never
  modified, and that reads fall back to the pre-replay world when the walker hits its caps or sees a
  feature it does not understand: a replay on a writable device does write, caps refuse the mount,
  and the fallback for features shows what an earlier mount may have half replayed.
  `BareReadsExplained` says what such reads are.
- A replay that fails after it wrote the journaled superblock home leaves RECOVER clear;
  the comment at `journal.c:478` promises it set.
- The SCAN pass reports 0 when it meets no commit block, and 0 is "later" than a sequence
  number in the upper half of the space (`journal.c:438`, `464`): an unfinished first
  transaction is then replayed, or refused as a mismatch if headers of an earlier epoch follow
  it.  The logs of `foreign_log` that hold nothing but an unfinished
  transaction have a sequence number in the lower half.
- rmdir and unlink blank the freed inode in one copy of the inode-table block and touch
  the parent in another; when the two share the block the blanking is lost
  (`extent.c:1904`, `2168`).  The inode is free in its bitmap, so that nothing reads it;
  what is lost is the blank.
- unlink and truncate take an extent's raw length with the "uninitialized" bit as a
  count (`extent.c:2042`): a preallocated extent of one block frees 32769.
- A mkdir on a volume without a free block has committed its inode by then and leaves it
  allocated and unnamed (`extent.c:1483`; `interrupted` then holds `"mkdir"`).
- unlink frees the inode whatever `links_count` is (`extent.c:1982`), and removes the first
  entry of the parent with that inode, not the entry with that name: a second name
  dangles.  The volumes here have one name per file, as this driver makes them.
- An unlink or truncate cut in half and repeated frees the same blocks again and counts
  them twice.
- The redirector lets a file be opened twice, and deleted or replaced while open.  A
  write through the other handle then works from an old size and old extents: it
  cuts the file back to its own idea, or writes a block that was freed.  DOS without
  SHARE permits this; `spoiled` marks it.
- The append lets an extent grow to 0x8000 blocks, a length that the lookup masks to zero
  (`extent.c:88`).
- Group descriptors are indexed in a buffer of one block (`extent.c:895`, `1940`).  The comment at
  `extent.c:495` knows it, but nothing refuses a larger volume: with blocks of 1 KiB, the only
  ones written to, that is one of more than 256 MiB, or 128 MiB with 64-byte descriptors.
- With flex_bg, `init_uninit_bitmap` marks none of the superblock and descriptor backups of
  a group whose bitmaps are elsewhere, which the comment at `extent.c:823` says it does.
- The headers' comments say that hashed parents and parents of several blocks are
  refused (`extent.h:50`, `77`, `106`; `extent.c:2514`), where the code inserts into them; and
  that the append prefers the contiguous candidate, where the code takes the first free
  block unless the leaf is full (`extent.c:1038`).
- A rename in place in a hashed directory leaves the entry in the leaf of its old hash
  (`extent.c:2418`): this driver, which lists every block, still finds it, a reader that
  consults the index does not.  `misplaced` marks it.
- The rename across directories searches block 0 of a linear directory only; the other
  operations search every block.
- Moving a hashed directory stamps a leaf's checksum record over the end of its index
  block (`extent.c:2684`).
- FindNext compiles its pattern from the SDA path, which any other call with a path
  changes (`search.strayed`); it counts entries, so that a removal before the cursor makes it
  skip one (`tsr.c:757`); a pattern without a dot also matches names with an extension; a
  search always lists the root.
- Create, delete and rename find the entry by its 8.3 form too, but their parent directory
  by exact name only.
- A volume's features are checked after it was mounted (`tsr.c:2958`): a disk with features
  that README.md:146 says are refused has had its journal replayed by then; and the scan stops
  at the first disk that mounts, though its features be refused.
- Nothing refuses a second copy of the program.  It sits above the first, answers every
  call with a path for the first one's letter too, and after its removal the first
  goes on with a journal sequence number from before.
- A letter named by the user overrides another owner's drive entry, or writes behind DOS's
  table, and removal frees it instead of giving it back (`seized` marks it).
- Disk space is answered from counters copied at installation (`tsr.c:2325`).

## Proofs

Each theorem holds for every value of the constants that satisfies the named
assumptions, where a run shows it on one instance.  TLC evaluates the assumptions on
every run that uses the module.

### Journal

`JournalProofs` proves, for every set of blocks, every log size, every set of
transactions, every capacity of the tables and every clean disk to start from:
`TypeOK`, `NoForgedHeader`, `MemoryKnowsLog`, `OkLeavesClean` as invariants and `LiveLogKept`
as an action property.  The argument is one inductive invariant, `Shape`: the types,
the absence of forged headers, and `Control`, which says at each place of the code
what it may rely on there (a commit runs on a clean log, a walk on the log it was
started on, memory that says clean is right in every state mounted with the journal, the last answer
"ok" was followed by nothing).  None of the properties is inductive alone: that
`start = 0` implies a clean disk between operations needs to be known inside a walk
and a checkpoint, that the log is not written while it is live needs
`jStart = 0` throughout a commit.  `LiveLogKept` covers mounts without the journal too, where
`start = 0` says nothing of the disk and only `jbd.present` keeps commits out.

It also proves the rest of what `JournalInv` states (`InvInvariant`): that a log
`s_start` points at holds a whole transaction under the sequence number of the
superblock, that headers left over from earlier epochs cannot continue it (`Stale`), how
far a commit, a walk or a flush has come and what it has therefore written, and that the
replay map and the blocks at home together show the committed store.  From it follow

- `JournalIsAtomic`, the refinement `Spec => AtomicAndDurable`: what a mount would recover is
  a store that changes by whole transactions.  The commit point is the write of the journal
  superblock (`CommitJsb`, `Abs!Apply`); no other step, no failed or half-done write and no
  power cut changes the store: they begin, answer or forget a write of `AtomicStore`,
  or are no step of it (`AbsStep`).  `OverlayProofs` supplies what a list of
  writes leaves in a block (`OverlayShows`), which is what a flush that may be repeated from
  the start needs: writing a prefix of it again changes nothing of the result.
- `ReadOnlyReads`: `ReadOnlySeesCommitted`, on read-only mounts that found their journal, without
  further hypotheses.
- `ReadsAreCommitted`: `ReadsSeeCommitted`, on mounts that found their journal, under `NoRepeats`, no transaction holds a block twice.
  The hypothesis is needed: with repeats the property is false (first entry of "Other
  disagreements"), and the `journal` run, which checks it, has none.
- `OwnLogNeverRefused`: `OwnLogMounts`, no step of the driver's ends in `"refused"` on a log that
  it wrote.

They rest on the assumptions `FormatAssumption` and `JournalAssumption` of the modules.

### A log that another system left

`ForeignLogProofs` proves `ReadsSeeRecovered` (`RecoveredReads`, for mounts that found their
journal), `BareReadsExplained` (`BareReads`, for those that did not) and `RefusesOnlyBeyondLimits`
(`RefusalsAreLimits`) of `ForeignSpec`, for every volume, ring size, sequence-number space,
checksum setting, capacity and log that is not damaged.  `ForeignLog` says what a log means by what
its headers, revoke records and tags are all together; the driver reads it in three passes,
block by block, and knows at each step only what it has seen.  The inductive invariant
`ForeignInv` relates the two.  It says that the log and its start are those of the disk as it was
found, that each block in place is as it was, one of its copies in the log, or torn, and without
a copy as it was (`OnDisk`, from which `BareReadsExplained` follows), and in the middle
of a pass that the walk is at a header, or among the tags of one (`AtHeader`, `AmongTags`), and
what was made of the log below that offset (`PassAt`):

- SCAN: the number it will hand on is that of the last commit block so far (`Scanned`);
  at the end it is that of the last one of all (`Final`), and then the headers whose number is not
  past it are exactly those of committed transactions (`FinalIs`);
- REVOKE: the table has, of each block, the number of its last revoke record so far
  (`RevokedTo`); of the finished table `is_revoked` is true of exactly the tags that a later or
  the same transaction revokes (`RevokedIs`), which needs numbers not to decrease along the log;
- FLUSH: a block of which a copy lies below is, in place, the last such copy (`FlushedTo`).
  Nothing is said of the others, so that a torn block or a replay that was cut
  short costs nothing: whatever is torn has a copy, and the next mount begins again;
- BUILD: the map has one entry for each block with a copy below, and it is the last such
  (`BuiltTo`, `OnePerBlock`).

From `HomeMeans`, or from the map and home together, reads follow.  For refusals: a place that
is not a header carries the number behind the last commit block's, so that the passes after
SCAN stop there before they look at it (`NoMismatch`); the walk is in its first round
(`FirstRound`); the table holds only blocks that the log revokes, the map only blocks that it
has copies of, each once (`RevokesHeld`, `MapHolds`).

They suppose `Txns = {}`, as the run does: this is recovery, before the first commit of the
driver's own (after one, `stale_tail` shows what can happen); for refusals also that the volume
has finitely many blocks.  They rest on `WrittenAssumption`: a log's headers and their data
do not run into its start, only descriptors carry tags and only revoke records revokes, numbers
do not decrease along the log by signed difference, no two disks have the same log, and, if no
transaction was committed, 0 is earlier than the log's number.  The last is what the third entry
of "Other disagreements" is about, and the properties are false without it.  `RefusalsAreLimits`
rests on `SumsAssumption` as well: tags of committed transactions carry the checksums of their
data.  TLC evaluates both on the 174 logs of `foreign_log`.

### Files and directories

`FileOpsProofs` proves `VolumeInvariant`: `Spec => []FileInv`, where `FileInv` is
`~Exposed => VolumeInv`.  The condition is the one the properties carry: past a freeing
operation cut in half or a mkdir that lost its inode nothing is promised, and the runs
`cut_truncate` and `nested_mkdir` show why.  `VolumeInv` says of the volume, between any two
transactions, that it is `Sound`:

- `Blocks`: every block holds what its kind of block holds, extents in order and apart;
- `Counting`: group and superblock counters say what the bitmaps hold;
- `Owning`: no data block is in two places, or one of a group's own;
- `Rooted`: names form a tree (`TreeOf`), every directory leads up to the root, and links
  count names and subdirectories;

that all blocks of inodes are taken, but for those of the inode whose blocks are being freed
(`AllTaken`, `Losing`); and that the operation under way may still rely on what it read
before its first transaction (`Doing`): a mkdir's new inode is nobody's yet and there is
still room in its parent, an unlink's blocks to free are still the file's and still taken, and so on.
No property is inductive without the others: that a block `find_free_block` hands out
is in nobody's inode needs `AllTaken`, that `AllTaken` survives a free needs `Owning`, that
counters stay right needs the freed block to have been taken, and that a directory's
removal leaves nobody without a parent needs `Rooted`.

The proof goes bottom up.  `FsImageProofs` has what each transaction of `FsImage` does
to bitmaps and counters (`TakeBlk`, `TakeIno`, `FreeBlk`, `FreeIno`, with and without a bitmap
on disk), to inode-table blocks that several inodes share, and to extents (`Grown`, `Kept`,
`Doomed`).  It also has what adding, dropping, renaming and moving an entry do to a
tree of names; that a directory moved to a place `Walk` found outside itself makes no cycle is
argued over sets closed under "..", which spares an induction over paths; and it has one
lemma per transaction.  `FileOpsProofs` has one per action, for both outcomes of a commit.  A
mkdir that stages two copies of one inode-table block is shown to end in `Exposed`
(`WireOverlaps`), never to be excluded.

`NamesStayWhole` is the refinement `Spec => NamesChangeWhole`, up to the same states.  Each
lemma about an action says, beside `VolumeInv'`, what the step does to the names a program
is told (`NamesGo`): nothing, or one whole creation, making of a directory, deletion, removal,
renaming or change of one file's size.  Of two transactions of an operation only one
changes names; the transactions that take or free blocks, answer, or fail, and a crash
between any two, change none.  That a directory moves to no place below itself, the guard of
`Namespace`'s `Rename`, is `NotAbove`: `Above` climbs the names told, `Rooted` of the volume
after the move says that ".." leads up to the root, and the two cannot both hold below
the directory.  `ViewSteps` then turns each into an action of `Namespace` or a stutter.

`NothingStaysLost` is `Spec => []NothingLeaks`.  `NothingLeaks` speaks of volumes between
operations only and is not inductive: `TidyInv` says what is not lost in the middle of one.
An inode in use has a name, is reserved, or is the one a mkdir is making; a taken block is
a group's own or still held, where of the inode that is being emptied only the blocks not
yet freed are held (`Spared`), so that a free that went ahead of its record in the operation
would break it.  It stands on `interrupted = {} /\ overlapped = {}`, not on `~Exposed` alone: a
mkdir cut short loses its inode without exposing anything.  A transaction that writes
one block twice may undo part of what the proof relies on; that its steps lose no write
(`Unharmed`) is what `overlapped` records.

`FilesReadWhole` is `Spec => []ReadsOwnData`, from `FilledInv`: the places of a file are its
bytes, in order and without holes (`Complete`), and an unlink or truncate that frees
blocks leaves the record of the file as it was until its last transaction.  It has the hypothesis
`BlocksFor(MaxSize) < LenBit`: no program lets a file grow to 0x8000 blocks.  The code does
not see to that, and past it the property is false: an append takes an extent to that
length and the lookup then reads it as empty (see "Other disagreements").

The other theorems are `BlocksStayOwnedOnce`, `CountersStayRight`, `NamesStayATree` and
`VolumeKeepsTypes` (the last says `~Exposed => TypeOK`; the runs check `TypeOK` up to the
same states).  They hold for every number of groups, inodes, blocks, names, entries and
extents, under `ImageAssumption` (an extent's length bit is above 1, an inode-table
block lies in one group), `BoundsAssumption` (the bounds are numbers) and
`ImagesAssumption`: a volume a history begins with is sound.  `NothingStaysLost` and
`FilesReadWhole` also use `TidyAssumption`: such a volume has lost nothing yet, and its files have
no holes and no blocks past their end (a hole reads as zeros and is nobody's data, which
`ReadsOwnData` has no words for).  TLC evaluates both for the fresh, the unwritten and the
full volume of the runs.

### Redirector

`OpenFilesProofs` proves `HandleKeepsFile` for every number of slots and SFTs, every volume
and every order of failures.  The invariant is `OpenShape`: at most one slot answers for
an SFT (`OneSlotEach`), every open SFT has its file's slot (`SlotOfFile`), and a handler
whose truncate is still running holds a slot that `alloc_open_slot` would give for its SFT
now (`CallOK`).  The last is what makes a late `slot->used = 0` or a late fill safe: it can
hit no other handle's slot.  `FindGives` then says that the first match of
`find_open_slot` is the only one.  It uses `SlotsAssumption` alone and nothing about what the
library does to the volume.

The other properties relate slots to the volume, and hold until `Void`: a disorder of
the volume, or a write through a handle whose file was changed by another way.  Their invariant
is `OpenInv` (module `OpenFilesInv`), `OpenShape` with `VolumeInv` of `FileOps` and `HandlesOK`:

- `CopiesOK`: the copy in every slot that is not stale is the inode of a file with a name;
- `UnderWay`: a truncate is under way exactly while a handler waits for it, no fresh slot but that
  handler's stands for the file it shortens, and none at all for a file that is being
  removed; a loop of writes runs over an idle volume through a fresh slot and has not yet reached
  its end.

`CopyIsCurrent` is not inductive alone.  That an append through a copy is an append of the
library needs the copy to be of a file with a name, which a removal by path would break if
`Touch` had not made every slot of it stale; that a cut leaves no other copy behind
needs `UnderWay`; and that a slot is the only fresh one of the file that an append changes needs
`OneSlotEach`.  TLC checked `OpenInv` on the instance of `open_files` before it was proved.

The proof is in two halves.  `OpenStepIs` shows that a call through a handle is to the volume a
step of `FileOps`: an append through a copy chooses the same block and stages the same
transaction as one through the inode (`CopyAppends`), its length stays within the file's
bound (`ExtendOneIs`), and the file it writes is reached by a name.  So `VolumeStep`, proved for
`FileOps`, applies.  Then one lemma per handler shows that `HandlesOK` survives, from
what each transaction leaves of the files (`FilesStay`: all but the one it is about are as they
were).  From the invariant follow

- `CopiesStayCurrent`: `OpenSpec => []CopyIsCurrent`;
- `HandlesStayFileOps`: the redirector implements `FileOps` (`OpenSpec => HandlesAreFileOps`);
- `HandlesKeepVolume` and `HandlesKeepNamesWhole`: what the previous section has of `FileOps`
  holds under handles, up to `Void`;
- `HandlesReadFiles`: `OpenSpec => []HandleReadsFile`, under the hypothesis of `FilesReadWhole`.

They use `ImageAssumption`, `BoundsAssumption`, `SlotsAssumption` and `ImagesAssumption`, and, for what
is lost and what is read, `TidyAssumption`.

`ResidentProofs` proves `ChainsIntact`, `DrivesServed` and `OthersDrivesKept` for any number of
copies, other programs and letters.  The invariant `RInv` adds to them the types, that
chains never come to a program twice (`Acyclic`), and that the letter of every copy that
calls reach is its own unless one was seized (`Undisturbed`).

### Directories

`DirProofs` proves every property of the run `directory`, for every block size, every
set of names, inodes, hashes and 8.3 forms, and directories of any number of blocks:
`RecordsStayTiled`, `IndexKeepsFinding`, `CallsAreWhole` (the calls implement `Namespace`),
`NamedIsTaken`, `AliasesKeepApart`, `SearchesComplete`, `SearchesShowOnce`.  `DirInvariant` is the
invariant they stand on, `DirInv` of module `DirInv`:

- `DirShaped` of every directory: its blocks are tiled with records (`Tiles`), an index leads to
  blocks that exist and are not its own (`LeavesThere`), "." and ".." are the first two records of
  the first block and nowhere else, and index blocks hold no other name (`Dotted`);
- `TreeOf` of the names in the blocks (`Lines`, each with directory, block and offset): no
  inode and no name of a directory is there twice, ".." leads to the directory that names the
  one it is in, and from every directory the way up leads to the root (`LeadUp`);
- `OneBlockEach`: a directory of one extent, the root apart, is of one block;
- `ByHash`: every name is in the leaf of its hash, or was renamed in place;
- `listing` is what the blocks list.

No property is inductive alone.  Removal and rename look a record up by its inode, so that
they hit the right name only if an inode is in one place.  The emptiness check of rmdir reads the
first block, so that a removed directory was empty only under `OneBlockEach`; without it names
are orphaned and the tree is lost, as `hashed_rmdir` shows.  That a moved directory comes nowhere below
itself needs the walk up of `xdir_is_ancestor` to reach the root, which is `LeadUp`, said over
closed sets of directories to spare an induction over paths.  That insertion into a hashed directory keeps
`ByHash` needs the leaf that the index gives to be there and not to be the index.

The proof goes bottom up: what the walk of a block visits and lists (its offsets are the
least set closed under `rec_len`); what `Inserted`, `Removed` and `Renamed` do to it, so that
one record comes, goes or changes and all others stay where they are; what they do to the lines of
a directory; what that does to the tree of lines; what `Listings` and `Resolve` then say; one lemma per call.
`StepShows` sums up: a step changes no line, or adds, drops or moves one.  The same three cases, told as
what a reader sees (`Gains`, `Loses`, `Shifts`), give the steps of `Namespace`.

`SearchInvariant` adds `SearchInv`: while the search's path is its own, what it has shown is among
the first `next` entries unless an entry came, and what it has still to show is behind them unless
one went.  Between two calls the listing may change, and the argument is about places.  Entries
are listed by block, and in a block by offset (`ListingSorted`); a call leaves every line that
stays in the root where it was (`PlacesStay`): a rename there is done in the record, and only a move
to another directory inserts.  So the entries
that match before and after a call come in the same order (`FollowsAgree`), and if none came, none is
later than it was (`NoLater`, by the least entry that would be); if none went, none is earlier.

All of them rest on `BlockAssumption`, `DirectoryAssumption`, `SearchAssumption` and
`ImagesAssumption` (the volumes a history begins with are `SoundDirs` and `ByHash`), which TLC evaluates,
and on the hypothesis `\A ds \in Images : OneBlockEach(ds)`.  It holds of every directory that this driver
made, and of the volumes of the run `directory`; a volume another system wrote can break it, and
then `OnlyEmptyRemoved` is false.

### What stays with TLC

- Liveness (`MountCleansLog`, `MountReturns`): fairness is out of the prover's reach.  With it
  stays that a walk has a next step at all.  No theorem states these two properties of the
  passing runs; every other one is stated by one.
- `CommitAddsOnlyItself`, `CutTruncateNeverAliases`, `NewDirectoryHasBlock` and `OnlyEmptyRemoved` are
  false; their runs show it.

## Plan

1. Extent lookup through index nodes with its 15-bit lengths and 32-bit byte offsets, as
   operators against a reference definition.
2. The mount as a whole: the feature gate, the scan for a disk, descriptors in more than
   one block.

## Not modelled

Parsing of superblock, inode and partition table fields, the feature gate, the CRC and
the half-MD4 hash, the text of 8.3 forms and patterns, BIOS and stdio calls, error texts,
command line tools, tests and scripts: pure functions of their input or pure I/O.  The
superblock's two sectors are written in one step.  The group descriptor cache is left out:
it is read only for the places of bitmaps and inode tables, which nothing changes.

In `FileOps` a directory is one block of equal slots, where `Directory` has records and
several blocks, and reads inside an operation do not fail; in `Directory` a call is one
step.  Times, modes, generations and checksums are left out of both; inputs are paths
that the redirector resolved.  In the redirector, attributes, disk space, the SFT's own fields
and the workarounds for single DOS versions are left out, and so are failed mounts, which
touch nothing that `Resident` describes.
