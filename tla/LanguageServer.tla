---- MODULE LanguageServer ----
\* The language server (zymbol-lsp) with its analyzer (zymbol-analyzer): the
\* documents the editor has open, the index of what every module of the
\* workspace exports and imports, the files on disk, and the diagnostics the
\* editor shows.  The server answers one message at a time and in order: the
\* handlers are polled in one task in the order they arrive, and none waits
\* before its last step.  The editor, the disk and the watcher go their own way.
EXTENDS Naturals, Sequences, TLC

CONSTANTS Files,        \* the source files of the workspace, in one folder
          NoText,       \* the text of a file that is not there or not open
          MaxChanges    \* bound: steps of the editor and of the disk

ASSUME ChangesAssumption == MaxChanges \in Nat

VARIABLES disk,         \* the text of each file on disk
          buffer,       \* the text of each file open in the editor
          mail,         \* messages to the server, oldest first
          seen,         \* changes on disk the watcher has yet to report
          client,       \* the session's place and the steps taken so far
          cache,        \* the server's documents
          index,        \* the server's module index and its list of modules
          shown,        \* the diagnostics the editor shows for each file
          lost,         \* files whose index the server knowingly leaves behind
          since         \* files that another file, or a re-export that leads
                        \* back to them, has changed under since their
                        \* diagnostics were computed

editor == <<disk, buffer, seen, client>>
server == <<cache, index, shown>>
vars == <<disk, buffer, mail, seen, client, cache, index, shown, lost, since>>

\* A text parses or not.  One that does may define and export a function, and
\* for each file it asks it imports it, calls its function and re-exports it.
Broken == [whole |-> FALSE, gives |-> FALSE, asks |-> {}]
Texts(f) == {Broken} \union
            [whole : {TRUE}, gives : BOOLEAN, asks : SUBSET (Files \ {f})]

\* A document of the server: a text and whether it defines the function.
Documents == [text : UNION {Texts(f) : f \in Files}, defines : BOOLEAN]

ASSUME NoTextAssumption ==
    NoText \notin (UNION {Texts(f) : f \in Files}) \union Documents

Exports(text) == text.asks \union (IF text.gives THEN {"own"} ELSE {})
Nothing == {"not indexed"}      \* the exports of a file that is not in the index

----
\* What the server makes of a text.

\* How many imports a re-export is followed over (MAX_REEXPORT_DEPTH).
MaxHops == 8

\* The exports of a file on disk are known (exports_of_file): each re-export, of
\* the file and of those it is followed to, leads to a file that parses and gives
\* what is re-exported, in MaxHops imports and so round no circle.
Followed(g) ==
    \E met \in SUBSET Files : \E depth \in [met -> 0 .. MaxHops] :
        /\ g \in met
        /\ \A h \in met : disk[h] # NoText /\ disk[h].whole
        /\ \A h \in met : \A k \in disk[h].asks :
              k \in met /\ depth[k] > depth[h] /\ disk[k].gives

\* The type checker reads the exports of the imported files from the disk; one
\* whose exports are not known has nothing to say.
Refused(text) == \E g \in text.asks : Followed(g) /\ ~disk[g].gives

Compiles(text) == text.whole /\ ~Refused(text)

\* Putting the texts of some files in the index.  The errors are replaced; the
\* imports and the exports only when the text parses.
Indexed(texts) ==
    LET all == DOMAIN texts
        parsed == {f \in all : texts[f].whole}
    IN  [index EXCEPT
          !.errors = (@ \ all) \union {f \in all : ~Compiles(texts[f])},
          !.imports = [f \in Files |-> IF f \in parsed THEN texts[f].asks ELSE @[f]],
          !.exports = [f \in Files |-> IF f \in parsed THEN Exports(texts[f]) ELSE @[f]]]

Unindexed(f) == [index EXCEPT !.errors = @ \ {f}, !.imports[f] = {},
                              !.exports[f] = Nothing, !.listed = @ \ {f}]

\* A search from f along the imports meets a file twice on one path.
InACycle(ix, f) ==
    \E path \in SUBSET Files : /\ f \in path
                               /\ \A g \in path : ix.imports[g] \intersect path # {}

\* The diagnostics of f, open with this text: its own, then what the index and
\* the disk say of the files it imports and of what it re-exports.
Diagnose(ix, f, text) ==
    IF ~text.whole THEN {<<"syntax">>}
    ELSE {<<"types", g>> : g \in {g \in text.asks : Refused([text EXCEPT !.asks = {g}])}}
         \union (IF InACycle(ix, f) THEN {<<"cycle">>} ELSE {})
         \union {<<"has errors", g>> : g \in text.asks \intersect ix.errors}
         \union {<<"not found", g>> : g \in {g \in text.asks : disk[g] = NoText}}
         \union {<<"not exported", g>> : g \in {g \in text.asks \intersect ix.imports[f] :
                    ix.exports[g] # Nothing /\ "own" \notin ix.exports[g]}}

----
\* The editor and the disk.

Stirs == /\ client.changes < MaxChanges
         /\ client' = [client EXCEPT !.changes = @ + 1]

Send(kind, f, text) == mail' = Append(mail, [kind |-> kind, file |-> f, text |-> text])

\* A file on disk re-exports from f.
IsAsked(f) == \E g \in Files : disk[g] # NoText /\ f \in disk[g].asks

\* The disk takes a new text of f, which the checks of other files read, and its
\* own when they follow a re-export back to it.  While the watcher is not there the change is
\* never reported; it is made up for only if the scan is still to read f.
Put(f, text) ==
    /\ disk' = [disk EXCEPT ![f] = text]
    /\ since' = since \union (Files \ {f})
                     \union (IF IsAsked(f) THEN {f} ELSE {})
    /\ IF client.place = "watching"
       THEN /\ seen' = Append(seen, [kind |-> IF text = NoText THEN "gone" ELSE "there",
                                     file |-> f, text |-> NoText])
            /\ UNCHANGED lost
       ELSE /\ lost' = IF buffer[f] = NoText
                             /\ ~(client.place = "opened" /\ f \in index.listed)
                       THEN lost \union {f} ELSE lost
            /\ UNCHANGED seen

Open(f) ==
    /\ buffer[f] = NoText
    /\ disk[f] # NoText
    /\ Stirs
    /\ buffer' = [buffer EXCEPT ![f] = disk[f]]
    /\ Send("open", f, disk[f])
    /\ UNCHANGED <<disk, seen, server, lost, since>>

\* An edit, or the editor taking over what another program wrote.
Edit(f) ==
    /\ buffer[f] # NoText
    /\ Stirs
    /\ \E text \in Texts(f) \ {buffer[f]} :
          /\ buffer' = [buffer EXCEPT ![f] = text]
          /\ Send("change", f, text)
    /\ UNCHANGED <<disk, seen, server, lost, since>>

Save(f) ==
    /\ buffer[f] # NoText
    /\ Stirs
    /\ Put(f, buffer[f])
    /\ Send("save", f, NoText)
    /\ UNCHANGED <<buffer, server>>

Close(f) ==
    /\ buffer[f] # NoText
    /\ Stirs
    /\ buffer' = [buffer EXCEPT ![f] = NoText]
    /\ Send("close", f, NoText)
    /\ UNCHANGED <<disk, seen, server, lost, since>>

\* Another program writes or removes the file.
Elsewhere(f) ==
    /\ Stirs
    /\ \E text \in (Texts(f) \union {NoText}) \ {disk[f]} : Put(f, text)
    /\ UNCHANGED <<buffer, mail, server>>

Report ==
    /\ seen # <<>>
    /\ mail' = Append(mail, Head(seen))
    /\ seen' = Tail(seen)
    /\ UNCHANGED <<disk, buffer, client, server, lost, since>>

\* The client has taken the registration of the watcher the scan ended with.
Watch ==
    /\ client.place = "scanned"
    /\ client' = [client EXCEPT !.place = "watching"]
    /\ UNCHANGED <<disk, buffer, mail, seen, server, lost, since>>

----
\* The server's handlers.

Takes(kind, f) == /\ mail # <<>>
                  /\ Head(mail).kind = kind
                  /\ Head(mail).file = f
                  /\ mail' = Tail(mail)

\* Mutation of Publishes: the diagnostics are computed before the text is indexed.
PublishesFirst(f) ==
    /\ shown' = [shown EXCEPT ![f] = IF cache'[f] = NoText THEN {}
                                     ELSE Diagnose(index, f, cache'[f].text)]
    /\ since' = IF index' = index THEN since \ {f}
                ELSE (since \union Files) \ {f}

\* The diagnostics of f are computed from the documents and the index the
\* handler leaves, and sent; those of the files that import f are not.
Publishes(f) ==
    /\ shown' = [shown EXCEPT ![f] = IF cache'[f] = NoText THEN {}
                                     ELSE Diagnose(index', f, cache'[f].text)]
    /\ since' = IF index' = index THEN since \ {f}
                ELSE (since \union Files) \ {f}

\* The names of a document are kept from its last text that parsed; one that is
\* not open is not changed.
Opened(f) ==
    /\ Takes("open", f)
    /\ LET text == Head(mail).text
       IN  /\ cache' = [cache EXCEPT ![f] = [text |-> text, defines |-> text.gives]]
           /\ index' = Indexed([g \in {f} |-> text])
    /\ Publishes(f)
    /\ lost' = lost \ {f}
    /\ UNCHANGED editor

Changed(f) ==
    /\ Takes("change", f)
    /\ LET text == Head(mail).text
       IN  /\ cache' = IF cache[f] = NoText THEN cache
                       ELSE [cache EXCEPT ![f] =
                              [text |-> text,
                               defines |-> IF text.whole THEN text.gives ELSE @.defines]]
           /\ index' = Indexed([g \in {f} |-> text])
    /\ Publishes(f)
    /\ lost' = lost \ {f}
    /\ UNCHANGED editor

Saved(f) ==
    /\ Takes("save", f)
    /\ UNCHANGED <<cache, index>>
    /\ Publishes(f)
    /\ UNCHANGED <<editor, lost>>

\* The document goes; what the index says of the file stays as the last text in
\* the editor left it.
Closed(f) ==
    /\ Takes("close", f)
    /\ cache' = [cache EXCEPT ![f] = NoText]
    /\ UNCHANGED index
    /\ Publishes(f)
    /\ lost' = IF cache[f].text # disk[f] THEN lost \union {f} ELSE lost
    /\ UNCHANGED editor

\* Mutation of IsRead: an open file is read from the disk all the same.
IsReadAnyway(f) == disk[f] # NoText

\* A file that is there is read unless the editor has it open.
IsRead(f) == disk[f] # NoText /\ cache[f] = NoText

\* The scan that follows the client's greeting reads the listed files that are
\* not open, and then asks the client to watch the folder.
Scanned ==
    /\ mail # <<>>
    /\ Head(mail).kind = "initialized"
    /\ mail' = Tail(mail)
    /\ LET read == {f \in index.listed : IsRead(f)}
       IN  index' = Indexed([f \in read |-> disk[f]])
    /\ client' = [client EXCEPT !.place = "scanned"]
    /\ since' = since \union Files
    /\ UNCHANGED <<disk, buffer, seen, cache, shown, lost>>

\* A file written on disk is listed, and read unless it is open.
FileThere(f) ==
    /\ Takes("there", f)
    /\ LET reading == IF IsRead(f) THEN Indexed([g \in {f} |-> disk[f]]) ELSE index
       IN  index' = IF disk[f] = NoText THEN index
                    ELSE [reading EXCEPT !.listed = @ \union {f}]
    /\ lost' = IF IsRead(f) THEN lost \ {f} ELSE lost
    /\ since' = IF index' = index THEN since ELSE since \union (Files \ {f})
    /\ UNCHANGED <<editor, cache, shown>>

\* A file that is gone leaves the index, open or not.
FileGone(f) ==
    /\ Takes("gone", f)
    /\ index' = Unindexed(f)
    /\ lost' = IF cache[f] = NoText THEN lost \ {f} ELSE lost \union {f}
    /\ since' = IF index' = index THEN since ELSE since \union (Files \ {f})
    /\ UNCHANGED <<editor, cache, shown>>

----
Init ==
    /\ disk \in [Files -> (UNION {Texts(f) : f \in Files}) \union {NoText}]
    /\ \A f \in Files : disk[f] \in Texts(f) \union {NoText}
    /\ buffer = [f \in Files |-> NoText]
    /\ mail = <<[kind |-> "initialized", file |-> NoText, text |-> NoText]>>
    /\ seen = <<>>
    /\ client = [place |-> "opened", changes |-> 0]
    /\ cache = [f \in Files |-> NoText]
    /\ index = [exports |-> [f \in Files |-> Nothing],
                imports |-> [f \in Files |-> {}],
                errors |-> {},
                listed |-> {f \in Files : disk[f] # NoText}]
    /\ shown = [f \in Files |-> {}]
    /\ lost = {}
    /\ since = {}

Next == \/ \E f \in Files : \/ Open(f) \/ Edit(f) \/ Save(f) \/ Close(f)
                            \/ Elsewhere(f)
        \/ Report \/ Watch
        \/ \E f \in Files : \/ Opened(f) \/ Changed(f) \/ Saved(f) \/ Closed(f)
                            \/ FileThere(f) \/ FileGone(f)
        \/ Scanned

Spec == Init /\ [][Next]_vars

----
\* Nothing is under way: what is left to do is up to the editor and the disk.
AtRest == mail = <<>> /\ seen = <<>> /\ client.place = "watching"

TextOf(f) == IF buffer[f] = NoText THEN disk[f] ELSE buffer[f]

\* Whatever order opens, edits, saves, closes, writes and removals elsewhere and
\* their late reports arrive in, once they are all handled the server has the
\* documents the editor has, and its index says of every file what its text says
\* (the editor's while it is open, the disk's otherwise): nothing if there is
\* none, that it does not compile if it does not parse, and its own exports and
\* imports if it does.  Only the files in lost are excepted: closed with a text
\* that is not the disk's, removed while open, or written before the watcher came.
IndexFollowsText ==
    AtRest =>
        \A f \in Files :
            /\ (cache[f] = NoText) <=> (buffer[f] = NoText)
            /\ cache[f] # NoText =>
                  /\ cache[f].text = buffer[f]
                  /\ buffer[f].whole => cache[f].defines = buffer[f].gives
            /\ f \notin lost =>
                  LET text == TextOf(f)
                  IN  /\ text = NoText => /\ index.exports[f] = Nothing
                                          /\ index.imports[f] = {}
                                          /\ f \notin index.errors
                      /\ text # NoText /\ ~text.whole => f \in index.errors
                      /\ text # NoText /\ text.whole =>
                            /\ index.exports[f] = Exports(text)
                            /\ index.imports[f] = text.asks
                            /\ text.asks = {} => f \notin index.errors

\* The editor never keeps an answer to an older text: once every message is
\* handled, an open file shows the diagnostics of the text in the editor against
\* the index as it stands, unless another file has changed since, or its own on
\* disk while a file there re-exports from it (nothing republishes the files that
\* import what changed), and a closed file shows none.
ShownIsCurrent ==
    AtRest =>
        \A f \in Files :
            IF buffer[f] = NoText THEN shown[f] = {}
            ELSE f \notin lost \union since => shown[f] = Diagnose(index, f, buffer[f])

FilesAlike == Permutations(Files)
====
