----------------------------- MODULE BlockMerge -----------------------------
(***************************************************************************)
(* How a page exported from Docmost is merged into the wiki page block by  *)
(* block (packages/wiki-core block-merge.ts and the functions around it in *)
(* page-sync.processor.ts).  Each Sync is one page.saved event; the next   *)
(* one starts from the version and the metadata this one stored.           *)
(*                                                                         *)
(* A text is a heading, the marker around the block if there is one, and a *)
(* body; a body is how often each of two characters occurs in it, which is *)
(* all that characterJaccardSimilarity sees.  A hash of a text is the text *)
(* without its marker.  A block id is a slug and the number that makes it  *)
(* unique in the page.  Only page-sync writes metadata and the owner it    *)
(* gives to a new block is 'human', so every entry here is a person's.     *)
(***************************************************************************)
EXTENDS Naturals, Sequences, SequencesExt, FiniteSetsExt

CONSTANTS
  Headings, Slug, Key, \* headings; blockIdFromHeading and normalizeHeadingKey
  Bodies, Editors,
  MaxExported,         \* bound: blocks of an export
  MaxStored,           \* bound: blocks of the stored page
  MaxSyncs             \* bound: exports merged

VARIABLES
  stored,   \* the current version: its blocks and its page_block_metadata
  exported, \* history: the last export, its editor and whether it committed
  syncs

mergeVars == <<stored, exported, syncs>>

NoId == <<"", 0>>
NoText == [head |-> "", marker |-> NoId, body |-> <<0, 0>>]
Unmarked(t) == [t EXCEPT !.marker = NoId]

\* extractH2Blocks: the ids of the blocks of a page, numbered per slug.
H2Ids(texts) ==
  [i \in DOMAIN texts |->
     <<Slug[texts[i].head],
       1 + Cardinality({j \in 1..(i - 1) : Slug[texts[j].head] = Slug[texts[i].head]})>>]

\* The metadata of the current version with the text of the block that bears
\* its id, if there is one (enrichSidecarWithNormalizedContent).
Sidecar ==
  LET ids == H2Ids(stored.text)
      with(id) == {i \in DOMAIN ids : ids[i] = id}
  IN [k \in DOMAIN stored.meta |->
        [id |-> stored.meta[k].id, hash |-> stored.meta[k].hash,
         editor |-> stored.meta[k].editor,
         text |-> IF with(stored.meta[k].id) = {} THEN NoText
                  ELSE stored.text[CHOOSE i \in with(stored.meta[k].id) : TRUE]]]

-----------------------------------------------------------------------------
(* Matching without markers: matchBlocksFallback. *)

\* The one entry of candidates that satisfies P, none if there are several
\* (findUniqueSidecarMatch); first of them for the others.
UniqueOf(candidates) == IF Cardinality(candidates) = 1 THEN candidates ELSE {}
FirstOf(candidates) == IF candidates = {} THEN {} ELSE {Min(candidates)}

WithId(sidecar, free, id) == {k \in free : sidecar[k].id = id}

\* findFirstUnmatchedByBlockId: the block's id, then that of its heading.
HeadingMatch(sidecar, free, id) ==
  IF WithId(sidecar, free, id) # {} THEN WithId(sidecar, free, id)
  ELSE WithId(sidecar, free, <<id[1], 1>>)

\* findStableHeadingMatch: the heading up to case and punctuation, that of
\* the stored text or else that of the id.
StableHeadingMatch(sidecar, free, t) ==
  LET key(m) == IF m.text # NoText THEN Key[m.text.head]
                ELSE Key[CHOOSE h \in Headings : Slug[h] = m.id[1]]
  IN UniqueOf({k \in free : key(sidecar[k]) = Key[t.head]})

\* findContentHashMatch: the whole text or the body below the heading.
HashMatch(sidecar, free, t) ==
  UniqueOf({k \in free :
      \/ sidecar[k].hash = Unmarked(t)
      \/ sidecar[k].text # NoText /\ sidecar[k].text.body = t.body})

\* characterJaccardSimilarity above fuzzyContentThreshold, in tenths; the
\* heading counts as one character.
Overlap(s, t) == Min({s.body[1], t.body[1]}) + Min({s.body[2], t.body[2]})
                 + (IF s.head = t.head THEN 1 ELSE 0)
Size(t) == 1 + t.body[1] + t.body[2]
Union(s, t) == Size(s) + Size(t) - Overlap(s, t)
Similar(s, t) == 10 * Overlap(s, t) > 8 * Union(s, t)

\* findBestContentMatch: the most similar entry, the first of equals.
BestMatch(sidecar, free, t) ==
  LET close == {k \in free : sidecar[k].text # NoText /\ Similar(sidecar[k].text, t)}
      better(j, k) == Overlap(sidecar[j].text, t) * Union(sidecar[k].text, t)
                      > Overlap(sidecar[k].text, t) * Union(sidecar[j].text, t)
  IN FirstOf({k \in close : ~ \E j \in close : better(j, k)})

MarkerMatch(sidecar, free, t) ==
  IF t.marker = NoId THEN {} ELSE WithId(sidecar, free, t.marker)

\* The entry a block takes, as a set of at most one: the first of the five
\* ways that finds one.
Match(sidecar, free, id, t) ==
  LET ways == <<HeadingMatch(sidecar, free, id), MarkerMatch(sidecar, free, t),
                StableHeadingMatch(sidecar, free, t), HashMatch(sidecar, free, t),
                BestMatch(sidecar, free, t)>>
      found == {w \in DOMAIN ways : ways[w] # {}}
  IN IF found = {} THEN {} ELSE ways[Min(found)]

\* A matched entry is not offered to the blocks that follow.
LeftFree(free, got) == free \ got

\* The entry each block takes, 0 for a new block, from the first block on.
MatchBlocksFallback(texts, sidecar) ==
  LET ids == H2Ids(texts)
      step(acc, i) ==
        LET got == Match(sidecar, acc.free, ids[i], texts[i])
        IN [free |-> LeftFree(acc.free, got),
            took |-> Append(acc.took, IF got = {} THEN 0 ELSE CHOOSE k \in got : TRUE)]
      took == FoldLeft(step, [free |-> DOMAIN sidecar, took |-> <<>>],
                       [i \in DOMAIN texts |-> i]).took
      onlyOne == Len(sidecar) = 1 /\ Len(texts) = 1 /\ took = <<0>>
  IN [i \in DOMAIN texts |->
        LET k == IF onlyOne THEN 1 ELSE took[i]
        IN [id |-> IF k = 0 THEN ids[i] ELSE sidecar[k].id, entry |-> k,
            text |-> Unmarked(texts[i])]]

-----------------------------------------------------------------------------
(* Matching with markers: matchExportedBlocks. *)

Marked(texts) == {i \in DOMAIN texts : texts[i].marker # NoId}

\* reserveBlockId: the next number that no marker and no earlier block uses.
ReserveBlockId(id, used) ==
  IF id \notin used THEN id
  ELSE <<id[1], Min({n \in 2..(Cardinality(used) + 2) : <<id[1], n>> \notin used})>>

MatchMarked(texts, sidecar) ==
  LET h2 == H2Ids(texts)
      markers == {texts[i].marker : i \in Marked(texts)}
      entry(id) == LET ks == WithId(sidecar, DOMAIN sidecar, id)
                   IN IF ks = {} THEN 0 ELSE Max(ks)
      step(acc, i) ==
        LET id == IF i \in Marked(texts) THEN texts[i].marker
                  ELSE ReserveBlockId(h2[i], acc.used)
        IN [used |-> acc.used \cup {id},
            out |-> Append(acc.out,
                      [id |-> id, text |-> Unmarked(texts[i]),
                       entry |-> IF i \in Marked(texts) THEN entry(id) ELSE 0])]
  IN FoldLeft(step, [used |-> markers, out |-> <<>>], [i \in DOMAIN texts |-> i]).out

\* Markers are trusted when there are as many as there are entries.
MatchExportedBlocks(texts, sidecar) ==
  IF Marked(texts) = {} \/ Cardinality(Marked(texts)) < Len(sidecar)
  THEN MatchBlocksFallback(texts, sidecar)
  ELSE MatchMarked(texts, sidecar)

-----------------------------------------------------------------------------
(* mergeBlocks. *)

DropUnmatched(matched, sidecar) == <<>>  \* mutant: nothing is retained

\* The entries of a person that no block of the export matched.
RetainedHumanBlocks(matched, sidecar) ==
  LET taken == {matched[i].entry : i \in DOMAIN matched}
      ids == {sidecar[k].id : k \in taken \cap DOMAIN sidecar}
  IN SelectSeq(sidecar, LAMBDA m : m.id \notin ids)

NoEditor(m, sidecar, user) ==  \* mutant: a new block has no last editor
  IF m.entry = 0 THEN "" ELSE user

NewEditor(m, sidecar, user) == user  \* mutant: every block is the saver's

\* An entry keeps its editor when its text did not change.
EditorOf(m, sidecar, user) ==
  IF m.entry # 0 /\ sidecar[m.entry].hash = m.text THEN sidecar[m.entry].editor
  ELSE user

MergeBlocks(matched, sidecar, user) ==
  LET kept == RetainedHumanBlocks(matched, sidecar)
      entry(m) == [id |-> m.id, hash |-> m.text, editor |-> EditorOf(m, sidecar, user)]
      same(m) == [id |-> m.id, hash |-> m.hash, editor |-> m.editor]
  IN [text |-> [i \in DOMAIN matched |-> matched[i].text]
               \o SelectSeq([i \in DOMAIN kept |-> kept[i].text], LAMBDA t : t # NoText),
      meta |-> [i \in DOMAIN matched |-> entry(matched[i])]
               \o [i \in DOMAIN kept |-> same(kept[i])]]

-----------------------------------------------------------------------------
Ids(meta) == {meta[k].id : k \in DOMAIN meta}

\* processPageSaved: the unique index over page version and block id rejects
\* the whole transaction when two blocks end up with one id.
Sync(texts, user) ==
  /\ syncs < MaxSyncs
  /\ syncs' = syncs + 1
  /\ \E sidecar \in {Sidecar} :
       \E merged \in {MergeBlocks(MatchExportedBlocks(texts, sidecar), sidecar, user)} :
         LET ok == Cardinality(Ids(merged.meta)) = Len(merged.meta)
         IN /\ Len(merged.text) <= MaxStored
            /\ stored' = IF ok THEN merged ELSE stored
            /\ exported' = [texts |-> texts, editor |-> user, ok |-> ok]

ExportedTexts == [head : Headings, marker : {NoId} \cup Ids(stored.meta), body : Bodies]

MergeInit ==
  /\ stored = [text |-> <<>>, meta |-> <<>>]
  /\ exported = [texts |-> <<>>, editor |-> "", ok |-> TRUE]
  /\ syncs = 0

MergeNext ==
  \E n \in 1..MaxExported, user \in Editors : \E texts \in [1..n -> ExportedTexts] :
    Sync(texts, user)

MergeSpec == MergeInit /\ [][MergeNext]_mergeVars

-----------------------------------------------------------------------------
(* Properties. *)

MergeTypeOK ==
  /\ \A k \in DOMAIN stored.meta : /\ stored.meta[k].editor \in Editors
                                   /\ stored.meta[k].hash.body \in Bodies
  /\ \A i \in DOMAIN stored.text : stored.text[i].head \in Headings
  /\ Len(stored.text) <= Len(stored.meta)

\* The block that bears the id of an entry has the entry's text: true unless
\* a block was renamed, or pasted with the markers of another one.
Aligned(k) == Sidecar[k].text = stored.meta[k].hash

\* Adding blocks at the end of a page changes nothing about those before:
\* they keep their entries and the editors they are credited to, however
\* similar to them the new blocks are.
AppendingKeepsEntriesStep ==
  (/\ exported'.ok
   /\ \A k \in DOMAIN stored.meta : Aligned(k)
   /\ Marked(exported'.texts) = {}
   /\ IsPrefix(stored.text, exported'.texts))
  => \A k \in DOMAIN stored.meta :
       \E j \in DOMAIN stored.meta' : stored.meta'[j] = stored.meta[k]

\* The text of a block that an export leaves out is still in the page, or its
\* entry describes a newer text.  (A renamed block is the exception: its text
\* is not found under its id, and retaining it keeps the entry only.)
RetainedTextStaysStep ==
  \A k \in DOMAIN stored.meta :
    LET m == stored.meta[k]
    IN \/ ~ Aligned(k)
       \/ \E j \in DOMAIN stored.meta' :
            stored.meta'[j].id = m.id /\ stored.meta'[j].hash # m.hash
       \/ \E i \in DOMAIN stored.text' : stored.text'[i] = m.hash

=============================================================================
