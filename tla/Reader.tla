------------------------------- MODULE Reader --------------------------------
(***************************************************************************)
(* Reading the archive in a browser: the transcript and the gallery, which *)
(* are scrolled page by page behind a cursor, the jump from a hit into its *)
(* context, and the three searches (internal/store/query.go, gallery.go,   *)
(* search.go, vector.go and internal/web's handlers of them), while        *)
(* imports replace conversations and give every row a new id.              *)
(*                                                                         *)
(* A post stands for a message's stable hash: it says when it was sent,    *)
(* the link in it, how many files it has, and whether it is the owner's.   *)
(***************************************************************************)
EXTENDS Absent, Integers, Sequences, FiniteSets, SequencesExt, FiniteSetsExt

CONSTANTS
  Thread,       \* conversations
  Content,      \* the transcripts a conversation may have, sequences of posts
  PageLimit,    \* pageSize of the transcript, Limit of the gallery
  Window,       \* searchContextWindow
  KeywordLimit, \* what a keyword search returns at most
  SearchLimit,  \* searchLimit
  Worded,       \* the posts that hold the words
  Indexed,      \* the posts that have a vector of the configured model
  MaxImports    \* bound: imports, of which a disable is one

ASSUME ReaderAssumption ==
  /\ PageLimit \in Nat \ {0} /\ KeywordLimit \in Nat \ {0}
  /\ SearchLimit \in Nat /\ SearchLimit >= KeywordLimit
  /\ Window \in Nat

\* What a reciprocal rank is a share of.
Scale == 61 * 62 * 63 * 64

ASSUME ScaleAssumption == 60 + SearchLimit <= Scale

\* A message is one of its conversation, and there once.
ASSUME ContentAssumption ==
  /\ \A thread \in Thread : \A posts \in Content[thread] :
       /\ posts \in Seq(ToSet(posts))
       /\ \A i, j \in DOMAIN posts : posts[i] = posts[j] => i = j
       /\ \A i \in DOMAIN posts :
            /\ posts[i].ts \in Int /\ posts[i].files \in Nat
            /\ posts[i].url # None => /\ posts[i].url = [domain |-> posts[i].url.domain, path |-> posts[i].url.path]
                                      /\ posts[i].url.domain \in Int /\ posts[i].url.path \in Int
  /\ \A t, u \in Thread : t # u =>
       \A a \in Content[t], b \in Content[u] : ToSet(a) \intersect ToSet(b) = {}

ASSUME NoneAssumption ==
  /\ None \notin [kind : {"messages", "files", "links"}, threads : SUBSET Thread, asc : BOOLEAN]
  /\ None \notin [1 .. 2 -> Int] /\ None \notin [1 .. 4 -> Int] /\ None \notin Thread

VARIABLES
  shelf,    \* the tables messages, id -> [thread, post], and files, id -> [thread, post, n]
  walk,     \* the scrolled page in the browser, and the cursor it would go on from
  found,    \* or the page of results in it
  imports

readerVars == <<shelf, walk, found, imports>>

-----------------------------------------------------------------------------
(* Keyset pagination.                                                      *)

Less(a, b) == \E i \in DOMAIN a : a[i] < b[i] /\ \A j \in 1 .. i - 1 : a[j] = b[j]

\* The entries by their keys: the i-th is the one that i - 1 come before.
Ordered(entries) ==
  LET before(e) == {x \in entries : Less(x.key, e.key)}
  IN [i \in 1 .. Cardinality(entries) |-> CHOOSE e \in entries : Cardinality(before(e)) = i - 1]

\* What a view lists: its key orders the rows, of which "plain" is the part that
\* is no row id.
Timed(rows, view) ==
  LET dir == IF view.asc THEN 1 ELSE -1
  IN {[key |-> <<dir * rows[id].post.ts, dir * id>>, plain |-> <<dir * rows[id].post.ts>>,
       item |-> IF view.kind = "files" THEN <<rows[id].post, rows[id].n>> ELSE rows[id].post,
       id |-> id] :
        id \in {i \in DOMAIN rows : rows[i].thread \in view.threads}}

\* Links once each, by domain, then how often, then how early.
Links(table, view) ==
  LET posts(url) == {table[id].post : id \in {i \in DOMAIN table :
                       table[i].post.url = url /\ table[i].thread \in view.threads}}
      key(url) == <<url.domain, -Cardinality(posts(url)), Min({p.ts : p \in posts(url)}), url.path>>
  IN {[key |-> key(url), plain |-> key(url), item |-> url, id |-> 0] :
        url \in {u \in {table[i].post.url : i \in DOMAIN table} : u # None /\ posts(u) # {}}}

Entries(d, view) ==
  CASE view.kind = "messages" -> Timed(d.messages, view)
    [] view.kind = "files"    -> Timed(d.files, view)
    [] view.kind = "links"    -> Links(d.messages, view)

\* Mutant: the cursor is the time alone.
PageBySecond(view, cursor) ==
  LET rest == Ordered({e \in Entries(shelf, view) : cursor = None \/ Less(SubSeq(cursor, 1, 1), e.plain)})
  IN [rows |-> SubSeq(rest, 1, Min({PageLimit, Len(rest)})), more |-> Len(rest) > PageLimit]

\* A page: what follows the cursor, up to the limit, of which one row more is
\* asked for to know whether there is another page.  No cursor is the top.
Page(view, cursor) ==
  LET rest == Ordered({e \in Entries(shelf, view) : cursor = None \/ Less(cursor, e.key)})
  IN [rows |-> SubSeq(rest, 1, Min({PageLimit, Len(rest)})), more |-> Len(rest) > PageLimit]

\* The messages around one, which are those of the conversation it is in now.
GetContext(id) ==
  LET view == [kind |-> "messages", threads |-> {shelf.messages[id].thread}, asc |-> TRUE]
      all == Ordered(Entries(shelf, view))
      at == CHOOSE i \in DOMAIN all : all[i].id = id
  IN SubSeq(all, Max({1, at - Window}), Min({Len(all), at + Window}))

-----------------------------------------------------------------------------
(* Search.                                                                 *)

MessageConversationID(id) == IF id \in DOMAIN shelf.messages THEN shelf.messages[id].thread ELSE None

\* The filters of the form, which hold for every mode.
Passes(id, form) ==
  /\ shelf.messages[id].thread \in form.threads
  /\ form.hasLink => shelf.messages[id].post.url # None
  /\ form.hasAttachment => shelf.messages[id].post.files > 0

\* The best of them, in an order that relevance gives.
Ranked(ids, limit) ==
  {SubSeq(order, 1, Min({limit, Len(order)})) :
     order \in {p \in SetToAllKPermutations(ids) : Len(p) = Cardinality(ids)}}

SearchMessages(form, limit) ==
  Ranked({id \in DOMAIN shelf.messages : shelf.messages[id].post \in Worded /\ Passes(id, form)}, limit)
SemanticSearch(form) ==
  Ranked({id \in DOMAIN shelf.messages : shelf.messages[id].post \in Indexed /\ Passes(id, form)}, SearchLimit)

\* Reciprocal ranks, scaled so that they are whole for the ranks that occur.
RankShare(ranking, id) ==
  IF \E i \in DOMAIN ranking : ranking[i] = id
  THEN Scale \div (60 + CHOOSE i \in DOMAIN ranking : ranking[i] = id)
  ELSE 0
Score(kw, sem, id) == RankShare(kw, id) + RankShare(sem, id)

\* Where a message was seen first, which decides between equal scores.
Arrival(kw, sem, id) == CHOOSE i \in DOMAIN (kw \o sem) :
  (kw \o sem)[i] = id /\ \A j \in 1 .. i - 1 : (kw \o sem)[j] # id

fuseSearchResults(kw, sem) ==
  LET all == Ordered({[key |-> <<-Score(kw, sem, id), Arrival(kw, sem, id)>>, id |-> id] :
                        id \in ToSet(kw) \union ToSet(sem)})
  IN [i \in 1 .. Min({SearchLimit, Len(all)}) |-> all[i].id]

Result(mode, form, kw, sem, hits, capped) ==
  [mode |-> mode, form |-> form, kw |-> kw, sem |-> sem, capped |-> capped, current |-> TRUE,
   hits |-> [i \in DOMAIN hits |-> [id |-> hits[i], thread |-> shelf.messages[hits[i]].thread]]]

-----------------------------------------------------------------------------
NoWalk == [view |-> None, shown |-> <<>>, cursor |-> None, more |-> FALSE,
           promised |-> {}, seams |-> {}]
NoResult == [mode |-> None, form |-> None, kw |-> <<>>, sem |-> <<>>, capped |-> FALSE,
             current |-> FALSE, hits |-> <<>>]

\* The rows of a transcript under the next free ids, as SQLite gives them out.
Numbered(table, rows) ==
  LET base == Max(DOMAIN table \union {0})
  IN [id \in DOMAIN table \union (base + 1 .. base + Len(rows)) |->
        IF id \in DOMAIN table THEN table[id] ELSE rows[id - base]]

Others(table, thread) ==
  [id \in {i \in DOMAIN table : table[i].thread # thread} |-> table[id]]

Attached(thread, posts) ==
  LET all == Ordered(UNION {{[key |-> <<i, n>>, row |-> [thread |-> thread, post |-> posts[i], n |-> n]] :
                               n \in 1 .. posts[i].files} : i \in DOMAIN posts})
  IN [k \in DOMAIN all |-> all[k].row]

ReaderInit ==
  /\ shelf = [messages |-> <<>>, files |-> <<>>]
  /\ walk = NoWalk
  /\ found = NoResult
  /\ imports = 0

\* What is promised of a walk: what was there all the time at its place.  The
\* cursor's own second is a seam: its row ids are new on either side.
Promise(d) ==
  LET before == Entries(shelf, walk.view)
      after == Entries(d, walk.view)
      second == <<walk.cursor[1]>>
  IN IF walk.view = None THEN walk
     ELSE [walk EXCEPT
            !.promised = @ \intersect {[item |-> e.item, plain |-> e.plain] : e \in after},
            !.seams = IF /\ walk.more /\ walk.view.kind # "links"
                         /\ \E e \in before \ after : e.plain = second
                      THEN @ \union {second} ELSE @]

\* An import of a changed transcript replaces its rows in one transaction.
ReplaceConversationMessages(thread) ==
  /\ imports < MaxImports
  /\ imports' = imports + 1
  /\ \E posts \in Content[thread] :
       LET rows == [i \in DOMAIN posts |-> [thread |-> thread, post |-> posts[i]]]
           d == [messages |-> Numbered(Others(shelf.messages, thread), rows),
                 files |-> Numbered(Others(shelf.files, thread), Attached(thread, posts))]
       IN shelf' = d /\ walk' = Promise(d)
  /\ found' = [found EXCEPT !.current = FALSE]

-----------------------------------------------------------------------------
\* A behaviour is about one tab, from the page it is opened with: what a browser
\* showed before has no part in what a handler answers.
NewTab == walk = NoWalk /\ found = NoResult

\* The first page of a view, and the promise of all that it lists.
Open(view) ==
  LET page == Page(view, None)
  IN /\ NewTab
     /\ walk' = [view |-> view, shown |-> [i \in DOMAIN page.rows |-> page.rows[i].item],
                 cursor |-> IF page.rows = <<>> THEN None ELSE Last(page.rows).key,
                 more |-> page.more, seams |-> {},
                 promised |-> {[item |-> e.item, plain |-> e.plain] : e \in Entries(shelf, view)}]
     /\ found' = NoResult
     /\ UNCHANGED <<shelf, imports>>

handleConversation(thread) ==
  \E asc \in BOOLEAN : Open([kind |-> "messages", threads |-> {thread}, asc |-> asc])

handleGallery(kind) ==
  \E threads \in {Thread} \union {{t} : t \in Thread}, asc \in BOOLEAN :
    Open([kind |-> kind, threads |-> threads, asc |-> IF kind = "links" THEN TRUE ELSE asc])

\* The next page, asked for when the end of the last one comes into view.
\* (handleMessages, handleGalleryItems)
More ==
  /\ walk.more
  /\ LET page == Page(walk.view, walk.cursor)
     IN walk' = [walk EXCEPT
                  !.shown = @ \o [i \in DOMAIN page.rows |-> page.rows[i].item],
                  !.cursor = IF page.rows = <<>> THEN @ ELSE Last(page.rows).key,
                  !.more = page.more]
  /\ UNCHANGED <<shelf, found, imports>>

\* A hit leads to a row id, which by now may be nobody's, or another message's of
\* the same conversation; one of another conversation is refused.  From the
\* window the transcript is scrolled on downwards, whether or not there is more.
handleConversationAt ==
  \E i \in DOMAIN found.hits :
    LET hit == found.hits[i]
        view == [kind |-> "messages", threads |-> {hit.thread}, asc |-> TRUE]
        page == GetContext(hit.id)
    IN /\ MessageConversationID(hit.id) = hit.thread
       /\ walk' = [view |-> view, shown |-> [j \in DOMAIN page |-> page[j].item],
                   cursor |-> Last(page).key, more |-> TRUE, seams |-> {},
                   promised |-> {[item |-> e.item, plain |-> e.plain] :
                                   e \in {x \in Entries(shelf, view) : ~Less(x.key, page[1].key)}}]
       /\ found' = NoResult
       /\ UNCHANGED <<shelf, imports>>

\* One search; the vectors may be of no use (no model, or a query that cannot be
\* embedded), and then the hybrid one is a keyword search with a higher limit.
handleSearchResults ==
  \E threads \in {Thread} \union {{t} : t \in Thread}, hasLink, hasAttachment \in BOOLEAN :
    LET form == [threads |-> threads, hasLink |-> hasLink, hasAttachment |-> hasAttachment]
    IN /\ NewTab
       /\ \/ \E kw \in SearchMessages(form, KeywordLimit) :
               found' = Result("keyword", form, kw, <<>>, kw, Len(kw) >= KeywordLimit)
          \/ \E sem \in SemanticSearch(form) \union {<<>>} :
               found' = Result("semantic", form, <<>>, sem, sem, FALSE)
          \/ \E kw \in SearchMessages(form, SearchLimit), sem \in SemanticSearch(form) \union {<<>>} :
               LET hits == fuseSearchResults(kw, sem)
               IN found' = Result("hybrid", form, kw, sem, hits, Len(hits) = SearchLimit)
       /\ UNCHANGED <<shelf, walk, imports>>

ReaderNext ==
  \/ \E thread \in Thread : ReplaceConversationMessages(thread)
  \/ \E thread \in Thread : handleConversation(thread)
  \/ \E kind \in {"files", "links"} : handleGallery(kind)
  \/ More
  \/ handleConversationAt
  \/ handleSearchResults

ReaderSpec == ReaderInit /\ [][ReaderNext]_readerVars

-----------------------------------------------------------------------------
ReaderTypeOK ==
  /\ \A id \in DOMAIN shelf.messages : id \in Nat \ {0} /\ shelf.messages[id].thread \in Thread
  /\ \A id \in DOMAIN shelf.files : id \in Nat \ {0} /\ shelf.files[id].thread \in Thread
  /\ walk.more => walk.cursor # None
  /\ imports \in 0 .. MaxImports

\* Scrolling to the end shows everything once and in order, however many rows
\* share a second, and in spite of imports that replace the rows meanwhile: what
\* was there all the time and did not change its place is neither left out nor
\* shown twice, but for the second that the cursor stood in when an import came.
PagesShowAllOnce ==
  LET due == {p \in walk.promised : p.plain \notin walk.seams}
      places(p) == {i \in DOMAIN walk.shown : walk.shown[i] = p.item}
  IN /\ \A p \in due : Cardinality(places(p)) <= 1
     /\ ~walk.more => \A p \in due : places(p) # {}
     /\ \A p, q \in due : \A i \in places(p), j \in places(q) : i < j => ~Less(q.plain, p.plain)

\* A search shows every message once, all of them pass the form's filters in
\* every mode, one that both halves found is above those which only one half
\* found, unless at a better rank, and unless the page says so nothing is left out.
SearchIsHonest ==
  LET at(s, id) == CHOOSE i \in DOMAIN s : s[i] = id
      ids == [i \in DOMAIN found.hits |-> found.hits[i].id]
      both == ToSet(found.kw) \intersect ToSet(found.sem)
      half(id) == IF id \in ToSet(found.kw) THEN at(found.kw, id) ELSE at(found.sem, id)
  IN found.current =>
       /\ \A i, j \in DOMAIN ids : i # j => ids[i] # ids[j]
       /\ \A i \in DOMAIN ids : Passes(ids[i], found.form)
       /\ \A x \in both, y \in (ToSet(found.kw) \union ToSet(found.sem)) \ both :
            /\ half(y) >= Min({at(found.kw, x), at(found.sem, x)})
            /\ y \in ToSet(ids)
            => x \in ToSet(ids) /\ at(ids, x) < at(ids, y)
       /\ ~found.capped /\ found.mode = "keyword" =>
            ToSet(ids) = {id \in DOMAIN shelf.messages : shelf.messages[id].post \in Worded /\ Passes(id, found.form)}

\* What the pages show is what the archive has: nothing twice, nothing left out
\* unsaid.  (internal/store/query.go, gallery.go, search.go, internal/web/search.go.)
PagesAreHonest == PagesShowAllOnce /\ SearchIsHonest
=============================================================================
