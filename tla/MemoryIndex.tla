------------------------------ MODULE MemoryIndex ------------------------------
(***************************************************************************)
(* boat-chat/memory_index.py: a Markdown document cut into overlapping     *)
(* chunks, and the index that ensure() (the indexer's timer, the installer *)
(* and vesselstackctl) and a manual rebuild keep of them.  A line is a     *)
(* heading, text or blank, with a size; line texts differ.  One document   *)
(* stands for the list, an index for the SQLite tables of one transaction, *)
(* and the hash of a document for the document.                            *)
(***************************************************************************)
EXTENDS Integers, Sequences, FiniteSets, FiniteSetsExt

CONSTANTS
  Documents, Edits,  \* the documents an installation starts with, and those an edit leaves
  Target,            \* CHUNK_TARGET_CHARS
  Section,           \* the size from which a heading starts a chunk
  Overlap,           \* CHUNK_OVERLAP_LINES
  NoIndex, Rewrites, MaxRebuilds   \* NoIndex: no database; bounds

VARIABLES
  doc,      \* the document: a sequence of [kind, size]
  index,    \* [hash, chunks, mixed], or NoIndex; mixed: hash and chunks are of two versions
  rebuild,  \* actor -> its rebuild, or NoRebuild: the indexer, and the command line
  sure,     \* history: the document, if ensure() returned without an error since its last edit, or NoIndex
  ensured,  \* how the last ensure() or rebuild() ended
  edited, rebuilds

memoryVars == <<doc, index, rebuild, sure, ensured, edited, rebuilds>>

Actors == {"indexer", "cli"}
NoRebuild == <<>>

ASSUME MemoryAssumption ==
  /\ Documents \cup Edits \subseteq Seq([kind : {"head", "text", "blank"}, size : Nat])
  /\ Overlap \in Nat /\ NoIndex \notin Documents \cup Edits

-----------------------------------------------------------------------------
(* chunk_markdown: the lines from `from` on are the chunk being collected.   *)

Total(d, from, to, extra) == MapThenSumSet(LAMBDA n : d[n].size + extra, from .. to)
Words(d, from, to) == {n \in from .. to : d[n].kind # "blank"}

\* flush: the text is stripped of blank lines, and the last lines are kept for the next chunk.
Flush(d, acc, to) ==
  LET words == Words(d, acc.from, to) IN
  [chunks |-> IF words = {} THEN acc.chunks
              ELSE Append(acc.chunks, [line |-> acc.from, title |-> acc.title, first |-> Min(words), last |-> Max(words)]),
   from |-> Max({acc.from, to + 1 - Overlap}), title |-> acc.title]

AddLine(d, acc, n) ==
  LET heading == d[n].kind = "head"
      before == IF heading /\ acc.from < n /\ Total(d, acc.from, n - 1, 0) >= Section THEN Flush(d, acc, n - 1) ELSE acc
      titled == IF heading THEN [before EXCEPT !.title = n] ELSE before
  IN IF Total(d, titled.from, n, 1) >= Target THEN Flush(d, titled, n) ELSE titled

\* What is left at the end is a chunk of its own unless its text is the last chunk's.
RestMutant(d, acc) == acc.chunks
Rest(d, acc) ==
  LET words == Words(d, acc.from, Len(d))
      last == acc.chunks[Len(acc.chunks)]
  IN IF words = {} \/ (acc.chunks # <<>> /\ last.first = Min(words) /\ last.last = Max(words)) THEN acc.chunks
     ELSE Flush(d, acc, Len(d)).chunks

Chunks(d) ==
  LET scan[n \in 0 .. Len(d)] ==
        IF n = 0 THEN [chunks |-> <<>>, from |-> 1, title |-> 0] ELSE AddLine(d, scan[n - 1], n)
  IN Rest(d, scan[Len(d)])

\* chunk_hash is unique in the table.
Distinct(chunks) == Cardinality({chunks[i] : i \in DOMAIN chunks}) = Len(chunks)

-----------------------------------------------------------------------------
EditDocument(d) ==
  /\ edited < Rewrites /\ edited' = edited + 1 /\ d # doc /\ doc' = d
  /\ sure' = NoIndex /\ UNCHANGED <<index, rebuild, ensured, rebuilds>>

Starts(a, ensuring) == rebuild' = [rebuild EXCEPT ![a] = [pc |-> "read", ensuring |-> ensuring, saw |-> doc, chunks |-> <<>>]]

Outdated == index = NoIndex \/ index.chunks = <<>> \/ index.hash # doc

\* ensure: missing, empty or older than the document
Ensure(a) ==
  /\ rebuild[a] = NoRebuild /\ rebuilds < MaxRebuilds /\ rebuilds' = rebuilds + 1
  /\ IF Outdated THEN Starts(a, TRUE) /\ UNCHANGED <<sure, ensured>>
     ELSE sure' = doc /\ ensured' = "unchanged" /\ UNCHANGED rebuild
  /\ UNCHANGED <<doc, index, edited>>

\* the rebuild command
Rebuild ==
  /\ rebuild["cli"] = NoRebuild /\ rebuilds < MaxRebuilds /\ rebuilds' = rebuilds + 1 /\ Starts("cli", FALSE)
  /\ UNCHANGED <<doc, index, sure, ensured, edited>>

ReadDocuments(a) ==
  /\ rebuild[a] # NoRebuild /\ rebuild[a].pc = "read"
  /\ rebuild' = [rebuild EXCEPT ![a] = [pc |-> "store", ensuring |-> rebuild[a].ensuring, saw |-> doc, chunks |-> Chunks(doc)]]
  /\ UNCHANGED <<doc, index, sure, ensured, edited, rebuilds>>

\* One transaction: two equal chunks fail it.  The document's hash is taken inside it, after the
\* chunks were read.  ensure() of an empty index is an error, though it was stored.
Store(a) ==
  /\ rebuild[a] # NoRebuild /\ rebuild[a].pc = "store"
  /\ LET chunks == rebuild[a].chunks  stored == Distinct(chunks)  fine == stored /\ (rebuild[a].ensuring => chunks # <<>>) IN
     /\ index' = IF stored THEN [hash |-> doc, chunks |-> chunks, mixed |-> rebuild[a].saw # doc] ELSE index
     /\ sure' = IF fine /\ rebuild[a].ensuring THEN doc ELSE sure
     /\ ensured' = IF fine THEN "rebuilt" ELSE IF chunks = <<>> THEN "nothing to index" ELSE "failed"
  /\ rebuild' = [rebuild EXCEPT ![a] = NoRebuild]
  /\ UNCHANGED <<doc, edited, rebuilds>>

MemoryInit ==
  /\ doc \in Documents /\ index = NoIndex /\ rebuild = [a \in Actors |-> NoRebuild]
  /\ sure = NoIndex /\ ensured = "" /\ edited = 0 /\ rebuilds = 0

MemoryNext ==
  \/ \E d \in Edits : EditDocument(d)
  \/ Rebuild
  \/ \E a \in Actors : Ensure(a) \/ ReadDocuments(a) \/ Store(a)

MemorySpec == MemoryInit /\ [][MemoryNext]_memoryVars

-----------------------------------------------------------------------------
(* After ensure() returned for the document as it is, every line that is not *)
(* blank is in a chunk search can find, unless an edit fell between reading  *)
(* the chunks and taking the hash.                                           *)
EveryLineFound ==
  sure = doc /\ ~index.mixed =>
    \A n \in Words(doc, 1, Len(doc)) : \E i \in DOMAIN index.chunks : n \in index.chunks[i].first .. index.chunks[i].last

(* ensure() of a document with something in it builds the index              *)
(* (memory_index.py:392, "Build the index when it is missing, empty or older *)
(* than the documents").                                                     *)
EnsureBuilds == ensured # "failed"
===============================================================================
