-------------------------- MODULE WikiNormalization --------------------------
(***************************************************************************)
(* wiki-core importGraphifyWiki: the Markdown files of a graphify run      *)
(* become wiki pages.  The package exports it; no application calls it.    *)
(*                                                                         *)
(* A slug is [root, no, gf]: "a" is number 1, "a_2" number 2, "a_gf_<run>" *)
(* has gf TRUE.  A file is [slug, blocks]: its name made safe and the text *)
(* under each of its H2 headings.  A page is [id, slug, kind, raw, text,   *)
(* human, version]: the file it was made from (its hash), the text of its  *)
(* blocks, and of those of humans the text their metadata keeps and its    *)
(* hash.  A request has files, pages, and the slugs of the labels of       *)
(* communities and god nodes; names match up to case and separators.       *)
(***************************************************************************)
EXTENDS Naturals, FiniteSets, Sequences, SequencesExt

CONSTANT KeyOf(_)   \* a community's key: its name in lower case, anything but
                    \* a-z and 0-9 replaced, so different names can share it

NoText == "none"

IdentifyPageType(q, slug) ==
    IF slug.root = "index" THEN "index"
    ELSE IF slug \in q.communities THEN "community"
    ELSE IF slug \in q.gods THEN "god_node" ELSE "generated_article"

BuildPageId(q, slug) ==
    LET kind == IdentifyPageType(q, slug) IN
    IF kind = "index" THEN <<"index", "root">>
    ELSE IF kind = "community" THEN <<kind, KeyOf(slug)>> ELSE <<kind, slug>>

-----------------------------------------------------------------------------
(* resolveSlug                                                             *)

\* mutant: the number is not looked up
AlwaysSecond(slug, used) == [slug EXCEPT !.no = 2]

FirstFree(slug, used) ==
    LET Taken(n) == [slug EXCEPT !.no = n] \in used
        free == {n \in 2..(2 + Cardinality(used)) : ~Taken(n)} IN
    [slug EXCEPT !.no = CHOOSE n \in free : \A m \in free : n <= m]

\* The slug of another page gets the run's suffix; one that this run gave
\* already, a number.
ResolveSlug(base, used, pageSlugs) ==
    LET ofRun == [base EXCEPT !.gf = TRUE] IN
    IF base \notin used THEN base
    ELSE IF base \in pageSlugs
         THEN IF ofRun \notin used THEN ofRun ELSE FirstFree(ofRun, used)
         ELSE FirstFree(base, used)

-----------------------------------------------------------------------------
(* buildContentWithBlockOwnership                                          *)

HumanBlocks(page) == DOMAIN page.human

\* mutant: the incoming text fills in before the page is asked
IncomingBeforePage(page, b, incoming) ==
    IF page.human[b].text # NoText THEN page.human[b].text ELSE incoming

\* The text of the metadata, else of the page, else the incoming one.
PreservedContent(page, b, incoming) ==
    IF page.human[b].text # NoText THEN page.human[b].text
    ELSE IF b \in DOMAIN page.text THEN page.text[b] ELSE incoming

FinalContent(page, blocks) ==
    [b \in DOMAIN blocks |->
        IF b \in HumanBlocks(page) THEN PreservedContent(page, b, blocks[b]) ELSE blocks[b]]

ProposalsFor(page, blocks) ==
    {[id |-> page.id, block |-> b] : b \in
        {x \in HumanBlocks(page) \cap DOMAIN blocks : blocks[x] # page.human[x].hash}}

-----------------------------------------------------------------------------
(* importGraphifyWiki: the files in their order                            *)

NewPage(q, f) ==
    [id |-> BuildPageId(q, f.slug), slug |-> f.slug, kind |-> IdentifyPageType(q, f.slug),
     raw |-> [b \in {} |-> NoText], text |-> [b \in {} |-> NoText],
     human |-> [b \in {} |-> NoText], version |-> 0]

Existing(q, f) == {p \in q.pages : p.id = BuildPageId(q, f.slug)}

PageFor(q, f, used) ==
    IF Existing(q, f) # {} THEN CHOOSE p \in Existing(q, f) : TRUE
    ELSE [NewPage(q, f) EXCEPT !.slug = ResolveSlug(f.slug, used, {p.slug : p \in q.pages})]

IsUnchanged(q, f) == \E p \in Existing(q, f) : p.raw = f.blocks

\* mutant: a file is noted only when its page is written
NotesWritten(q, f, result) ==
    IF IsUnchanged(q, f) THEN result.incoming ELSE result.incoming \cup {BuildPageId(q, f.slug)}

\* Every file tells that its page is still there.
Noted(q, f, result) == result.incoming \cup {BuildPageId(q, f.slug)}

WithSlug(used, slug) == used \cup {slug}

ImportFile(q, result, f) ==
    LET page == PageFor(q, f, result.used)
        seen == [result EXCEPT !.used = WithSlug(@, page.slug), !.incoming = Noted(q, f, result)]
    IN  IF IsUnchanged(q, f) THEN [seen EXCEPT !.unchanged = @ \cup {page.id}]
        ELSE [seen EXCEPT
                !.written = Append(@, [page EXCEPT !.version = @ + 1, !.raw = f.blocks,
                                                   !.text = FinalContent(page, f.blocks)]),
                !.proposals = @ \cup ProposalsFor(page, f.blocks)]

NothingYet(q) == [used |-> {p.slug : p \in q.pages}, incoming |-> {}, written |-> <<>>,
                  unchanged |-> {}, proposals |-> {}]

ImportGraphifyWiki(q) ==
    FoldLeft(LAMBDA result, f : ImportFile(q, result, f), NothingYet(q), q.files)

PagesArchived(q) ==
    {p.id : p \in {x \in q.pages : x.kind = "community"}} \ ImportGraphifyWiki(q).incoming

-----------------------------------------------------------------------------
(* Properties of a request q                                               *)

\* No two pages that are written share a path in the repository, nor does one
\* with a page it is not: names can be taken by pages, by files before, and by
\* the numbers that were appended to make room.
SlugsStayApart(q) ==
    LET written == ImportGraphifyWiki(q).written IN
    \A i \in DOMAIN written :
        /\ \A p \in q.pages : p.id # written[i].id => p.slug # written[i].slug
        /\ \A j \in DOMAIN written : written[i].id # written[j].id => written[i].slug # written[j].slug

\* Whatever arrives under its heading, a human's block keeps the text that is
\* known of it, and arrives as a proposal when it is not what the human saw.
HumanTextStays(q) ==
    LET result == ImportGraphifyWiki(q) IN
    \A i \in DOMAIN result.written : \A p \in q.pages :
        p.id = result.written[i].id =>
            \A b \in HumanBlocks(p) \cap DOMAIN result.written[i].raw :
                /\ b \in DOMAIN p.text => result.written[i].text[b] = p.text[b]
                /\ result.written[i].raw[b] # p.human[b].hash =>
                       [id |-> p.id, block |-> b] \in result.proposals

\* A community page is archived exactly when the run delivers no file for it,
\* one that brings nothing new included.
ArchivedIsAbsent(q) ==
    \A p \in q.pages : p.kind = "community" =>
        (p.id \in PagesArchived(q) <=> ~\E i \in DOMAIN q.files : BuildPageId(q, q.files[i].slug) = p.id)

=============================================================================
