----------------------- MODULE LanguageServerProofs -----------------------
\* What the server knows once everything is handled: its index follows the texts
\* (IndexFollowsText), and the editor shows what was said of the last of them
\* (ShownIsCurrent).
\*
\* Both are about a session at rest.  The inductive invariant Inv says what they
\* rest on while messages and reports are on their way: that the last of them
\* about a file says what the editor, or the disk, has by then, and that whatever
\* is wrong of a file the server does not know to be lost is one of those still
\* to be handled.
EXTENDS LanguageServer, SequenceTheorems, TLAPS

----
\* The inductive invariant.

AnyText == UNION {Texts(f) : f \in Files}

\* The messages that give the server another document, and the watcher's.
DocumentKinds == {"open", "change", "close"}
OpenKinds == {"change", "close"}        \* of a document that is open
ReportKinds == {"there", "gone"}

Greeting == [kind |-> "initialized", file |-> NoText, text |-> NoText]
Message == {Greeting}
    \union [kind : {"open", "change"}, file : Files, text : AnyText]
    \union [kind : {"save", "close", "there", "gone"}, file : Files, text : {NoText}]

\* Message i of a queue is about f and of one of these kinds; none is; m is the
\* last that is.
About(s, kinds, f, i) == i \in DOMAIN s /\ s[i].file = f /\ s[i].kind \in kinds
NoneAbout(s, kinds, f) == \A i \in DOMAIN s : ~About(s, kinds, f, i)
LastIs(s, kinds, f, m) ==
    \E i \in DOMAIN s : /\ About(s, kinds, f, i)
                        /\ s[i] = m
                        /\ \A j \in DOMAIN s : About(s, kinds, f, j) => j <= i

\* Types, as far as the argument needs them.
IsText(f, text) == text \in Texts(f)

TextsTyped ==
    /\ disk \in [Files -> AnyText \union {NoText}]
    /\ buffer \in [Files -> AnyText \union {NoText}]
    /\ cache \in [Files -> Documents \union {NoText}]
    /\ \A f \in Files : /\ disk[f] # NoText => IsText(f, disk[f])
                        /\ buffer[f] # NoText => IsText(f, buffer[f])
                        /\ cache[f] # NoText => IsText(f, cache[f].text)

IndexType == [exports : [Files -> SUBSET (Files \union {"own", "not indexed"})],
              imports : [Files -> SUBSET Files],
              errors : SUBSET Files, listed : SUBSET Files]

MailTyped ==
    /\ mail \in Seq(Message)
    /\ \A i \in DOMAIN mail :
          mail[i].kind \in {"open", "change"} => IsText(mail[i].file, mail[i].text)

SeenTyped == /\ seen \in Seq(Message)
             /\ \A i \in DOMAIN seen : seen[i].kind \in ReportKinds

ClientTyped ==
    /\ client.place \in {"opened", "scanned", "watching"}
    /\ client = [place |-> client.place, changes |-> client.changes]

Types == /\ TextsTyped /\ MailTyped /\ SeenTyped /\ ClientTyped
         /\ index \in IndexType
         /\ DOMAIN shown = Files

\* The names of a document are those of its text, if it parses.
Names == \A f \in Files : cache[f] # NoText /\ cache[f].text.whole =>
                             cache[f].defines = cache[f].text.gives

\* The greeting is the first message; until it is handled the server knows
\* nothing.  Nothing is reported before the client watches.
Greeted ==
    /\ client.place = "opened" =>
         /\ mail # <<>> /\ Head(mail).kind = "initialized"
         /\ \A f \in Files : /\ cache[f] = NoText
                             /\ index.exports[f] = Nothing
                             /\ index.imports[f] = {}
         /\ index.errors = {}
    /\ \A i \in DOMAIN mail : mail[i].kind = "initialized" =>
                                 client.place = "opened" /\ i = 1
    /\ client.place # "watching" =>
         /\ seen = <<>>
         /\ \A f \in Files : NoneAbout(mail, ReportKinds, f)

\* What the server has of f once it has handled the last message about it is
\* what the editor has.
DocumentIs(f) == IF buffer[f] = NoText THEN cache[f] = NoText
                 ELSE cache[f] # NoText /\ cache[f].text = buffer[f]
BufferIs(f, m) == IF m.kind = "close" THEN buffer[f] = NoText
                  ELSE buffer[f] # NoText /\ m.text = buffer[f]
DocumentsArrive(f) ==
    \/ NoneAbout(mail, DocumentKinds, f) /\ DocumentIs(f)
    \/ \E m \in Message : LastIs(mail, DocumentKinds, f, m) /\ BufferIs(f, m)

\* A file is changed or closed after it was opened.
ComesInOrder(f) ==
    \A j \in DOMAIN mail : About(mail, OpenKinds, f, j) =>
       /\ \A i \in DOMAIN mail : i < j /\ About(mail, {"close"}, f, i) =>
             \E k \in DOMAIN mail : i < k /\ k < j /\ About(mail, {"open", "change"}, f, k)
       /\ cache[f] = NoText =>
             \E k \in DOMAIN mail : k < j /\ About(mail, {"open", "change"}, f, k)

\* The last report about f says whether it is there.
Matches(f, m) == m.kind = IF disk[f] = NoText THEN "gone" ELSE "there"
ReportsArrive(f) ==
    \/ NoneAbout(seen, ReportKinds, f) /\ NoneAbout(mail, ReportKinds, f)
    \/ \E m \in Message : LastIs(seen, ReportKinds, f, m) /\ Matches(f, m)
    \/ /\ NoneAbout(seen, ReportKinds, f)
       /\ \E m \in Message : LastIs(mail, ReportKinds, f, m) /\ Matches(f, m)

\* The index says of f what this text says.
Says(ix, f, text) ==
    /\ text = NoText => /\ ix.exports[f] = Nothing
                        /\ ix.imports[f] = {}
                        /\ f \notin ix.errors
    /\ text # NoText /\ ~text.whole => f \in ix.errors
    /\ text # NoText /\ text.whole =>
          /\ ix.exports[f] = Exports(text)
          /\ ix.imports[f] = text.asks
          /\ text.asks = {} => f \notin ix.errors

\* The index says of f what its document says or, if it has none, what is on
\* disk, unless something is on its way that will make it so.
UnderWay(f) ==
    \/ ~NoneAbout(mail, DocumentKinds, f)
    \/ ~NoneAbout(mail, ReportKinds, f)
    \/ ~NoneAbout(seen, ReportKinds, f)
    \/ client.place = "opened" /\ f \in index.listed
IndexRight(f) ==
    f \notin lost =>
       /\ cache[f] # NoText => Says(index, f, cache[f].text)
       /\ cache[f] = NoText => Says(index, f, disk[f]) \/ UnderWay(f)

\* What is shown of f is what was said of its document, unless what was read for
\* it has changed since.
ShownRight(f) ==
    /\ cache[f] = NoText => shown[f] = {}
    /\ cache[f] # NoText /\ f \notin lost \union since =>
          shown[f] = Diagnose(index, f, cache[f].text)

FileInv(f) == /\ DocumentsArrive(f) /\ ComesInOrder(f)
              /\ ReportsArrive(f) /\ IndexRight(f) /\ ShownRight(f)

Inv == Types /\ Names /\ Greeted /\ \A f \in Files : FileInv(f)

----
\* Queues.

\* What a message is made of.
LEMMA MessageKinds ==
    /\ \A m \in Message : m = [kind |-> m.kind, file |-> m.file, text |-> m.text]
    /\ \A f \in Files, text \in AnyText, k \in {"open", "change"} :
          [kind |-> k, file |-> f, text |-> text] \in Message
    /\ \A f \in Files, k \in {"save", "close", "there", "gone"} :
          [kind |-> k, file |-> f, text |-> NoText] \in Message
BY DEF Message, Greeting

\* Appending a message: it is the last of its kinds about its file, and what
\* was said of others stays.
LEMMA AppendedIs ==
    ASSUME NEW s \in Seq(Message), NEW m \in Message
    PROVE  /\ Append(s, m) \in Seq(Message)
           /\ DOMAIN s = 1 .. Len(s) /\ Len(s) \in Nat
           /\ DOMAIN Append(s, m) = 1 .. Len(s) + 1
           /\ \A i \in 1 .. Len(s) : Append(s, m)[i] = s[i]
           /\ Append(s, m)[Len(s) + 1] = m
BY AppendProperties, LenProperties

\* A message that is sent is the last of its kinds about its file.
LEMMA AppendedLast ==
    ASSUME NEW s \in Seq(Message), NEW m \in Message, NEW kinds, NEW f,
           m.file = f, m.kind \in kinds
    PROVE  /\ LastIs(Append(s, m), kinds, f, m)
           /\ ~NoneAbout(Append(s, m), kinds, f)
<1> DEFINE t == Append(s, m)
           n == Len(s) + 1
<1>1. n \in DOMAIN t /\ t[n] = m /\ \A j \in DOMAIN t : j <= n
  BY AppendedIs
<1>2. About(t, kinds, f, n)
  BY <1>1 DEF About
<1> HIDE DEF t, n
<1>3. LastIs(t, kinds, f, m) /\ ~NoneAbout(t, kinds, f)
  BY <1>1, <1>2 DEF LastIs, NoneAbout
<1> QED
  BY <1>3 DEF t

\* Of other files, or of other kinds, nothing changes.
LEMMA AppendedOther ==
    ASSUME NEW s \in Seq(Message), NEW m \in Message, NEW kinds, NEW f,
           ~(m.file = f /\ m.kind \in kinds)
    PROVE  /\ \A i : About(Append(s, m), kinds, f, i) <=> About(s, kinds, f, i)
           /\ NoneAbout(Append(s, m), kinds, f) <=> NoneAbout(s, kinds, f)
           /\ \A x : LastIs(s, kinds, f, x) => LastIs(Append(s, m), kinds, f, x)
<1> DEFINE t == Append(s, m)
<1>1. /\ Len(s) \in Nat /\ DOMAIN s = 1 .. Len(s) /\ DOMAIN t = 1 .. Len(s) + 1
      /\ \A i \in DOMAIN s : t[i] = s[i]
      /\ t[Len(s) + 1] = m
  BY AppendedIs
<1> HIDE DEF t
<1>2. \A i \in DOMAIN t : i \in DOMAIN s \/ i = Len(s) + 1
  BY <1>1
<1>3. DOMAIN s \subseteq DOMAIN t
  BY <1>1
<1>4. \A i : About(t, kinds, f, i) <=> About(s, kinds, f, i)
  BY <1>1, <1>2, <1>3 DEF About
<1>5. NoneAbout(t, kinds, f) <=> NoneAbout(s, kinds, f)
  BY <1>4 DEF NoneAbout, About
<1>6. \A x : LastIs(s, kinds, f, x) => LastIs(t, kinds, f, x)
  BY <1>1, <1>3, <1>4 DEF LastIs, About
<1> QED
  BY <1>4, <1>5, <1>6 DEF t

\* Taking the first message: the last one about a file stays the last, unless
\* it was the first.
LEMMA TakenIs ==
    ASSUME NEW s \in Seq(Message), s # <<>>
    PROVE  /\ Tail(s) \in Seq(Message) /\ Head(s) \in Message
           /\ Head(s) = s[1] /\ 1 \in DOMAIN s
           /\ Len(s) \in Nat \ {0} /\ DOMAIN s = 1 .. Len(s)
           /\ DOMAIN Tail(s) = 1 .. Len(s) - 1
           /\ \A i \in DOMAIN Tail(s) : i + 1 \in DOMAIN s /\ Tail(s)[i] = s[i + 1]
<1>1. Len(s) \in Nat \ {0} /\ DOMAIN s = 1 .. Len(s)
  BY LenProperties, EmptySeq
<1>2. /\ Tail(s) \in Seq(Message) /\ Head(s) \in Message
      /\ Len(Tail(s)) = Len(s) - 1
      /\ \A i \in 1 .. Len(Tail(s)) : Tail(s)[i] = s[i + 1]
  BY HeadTailProperties
<1>3. DOMAIN Tail(s) = 1 .. Len(s) - 1
  BY <1>2, LenProperties
<1> QED
  BY <1>1, <1>2, <1>3

\* What was said stays, one place further on, except what was taken.
LEMMA TakenOther ==
    ASSUME NEW s \in Seq(Message), s # <<>>, NEW kinds, NEW f
    PROVE  /\ \A i : About(Tail(s), kinds, f, i) =>
                        i + 1 \in DOMAIN s /\ About(s, kinds, f, i + 1)
           /\ \A i \in DOMAIN s : i # 1 /\ About(s, kinds, f, i) =>
                 i - 1 \in DOMAIN Tail(s) /\ About(Tail(s), kinds, f, i - 1)
           /\ NoneAbout(s, kinds, f) => NoneAbout(Tail(s), kinds, f)
           /\ \A x : LastIs(s, kinds, f, x) =>
                 \/ LastIs(Tail(s), kinds, f, x)
                 \/ x = Head(s) /\ x.file = f /\ x.kind \in kinds
                      /\ NoneAbout(Tail(s), kinds, f)
           /\ ~NoneAbout(s, kinds, f) =>
                 \/ ~NoneAbout(Tail(s), kinds, f)
                 \/ Head(s).file = f /\ Head(s).kind \in kinds
<1> DEFINE t == Tail(s)
<1>1. /\ Len(s) \in Nat \ {0} /\ DOMAIN s = 1 .. Len(s) /\ DOMAIN t = 1 .. Len(s) - 1
      /\ \A i \in DOMAIN t : i + 1 \in DOMAIN s /\ t[i] = s[i + 1]
      /\ Head(s) = s[1]
  BY TakenIs
<1> HIDE DEF t
<1>2. \A i \in DOMAIN s : i # 1 => i - 1 \in DOMAIN t /\ t[i - 1] = s[i]
  <2> TAKE i \in DOMAIN s
  <2> HAVE i # 1
  <2>1. i - 1 \in DOMAIN t /\ i = (i - 1) + 1
    BY <1>1
  <2> QED
    BY <2>1, <1>1
<1>3. \A i : About(t, kinds, f, i) => i + 1 \in DOMAIN s /\ About(s, kinds, f, i + 1)
  BY <1>1 DEF About
<1>4. \A i \in DOMAIN s : i # 1 /\ About(s, kinds, f, i) =>
         i - 1 \in DOMAIN t /\ About(t, kinds, f, i - 1)
  BY <1>2 DEF About
<1>5. NoneAbout(s, kinds, f) => NoneAbout(t, kinds, f)
  BY <1>3 DEF NoneAbout
<1>6. ASSUME NEW x, LastIs(s, kinds, f, x)
      PROVE  \/ LastIs(t, kinds, f, x)
             \/ x = Head(s) /\ x.file = f /\ x.kind \in kinds
                  /\ NoneAbout(t, kinds, f)
  <2>1. PICK i \in DOMAIN s : /\ About(s, kinds, f, i) /\ s[i] = x
                              /\ \A j \in DOMAIN s : About(s, kinds, f, j) => j <= i
    BY <1>6 DEF LastIs
  <2>2. \A j \in DOMAIN t : About(t, kinds, f, j) => j + 1 <= i
    BY <2>1, <1>3
  <2>3. CASE i = 1
    <3>1. NoneAbout(t, kinds, f)
      BY <2>2, <2>3, <1>1 DEF NoneAbout
    <3> QED
      BY <2>1, <2>3, <3>1, <1>1 DEF About
  <2>4. CASE i # 1
    <3>1. i - 1 \in DOMAIN t /\ About(t, kinds, f, i - 1) /\ t[i - 1] = x
      BY <2>1, <2>4, <1>2, <1>4
    <3>2. \A j \in DOMAIN t : About(t, kinds, f, j) => j <= i - 1
      BY <2>2, <1>1
    <3> QED
      BY <3>1, <3>2 DEF LastIs
  <2> QED
    BY <2>3, <2>4
<1>7. ~NoneAbout(s, kinds, f) =>
         ~NoneAbout(t, kinds, f) \/ (Head(s).file = f /\ Head(s).kind \in kinds)
  BY <1>1, <1>4 DEF NoneAbout, About
<1> QED
  BY <1>3, <1>4, <1>5, <1>6, <1>7 DEF t

\* There is a last message only if there is one.
LEMMA LastOrNone ==
    ASSUME NEW s, NEW kinds, NEW f, NEW m, LastIs(s, kinds, f, m)
    PROVE  /\ ~NoneAbout(s, kinds, f)
           /\ m.file = f /\ m.kind \in kinds
BY DEF LastIs, NoneAbout, About

----
\* Texts, documents and the index.

\* What a text is made of.
LEMMA TextTypes ==
    ASSUME NEW f \in Files, NEW text, IsText(f, text)
    PROVE  /\ text \in AnyText /\ text # NoText
           /\ text.whole \in BOOLEAN /\ text.gives \in BOOLEAN
           /\ text.asks \in SUBSET (Files \ {f})
           /\ Exports(text) \in SUBSET (Files \union {"own", "not indexed"})
<1>1. text \in AnyText /\ text # NoText
  BY NoTextAssumption DEF AnyText, IsText
<1>2. /\ text.whole \in BOOLEAN /\ text.gives \in BOOLEAN
      /\ text.asks \in SUBSET (Files \ {f})
  <2>1. CASE text = Broken
    BY <2>1 DEF Broken
  <2>2. CASE text \in [whole : {TRUE}, gives : BOOLEAN, asks : SUBSET (Files \ {f})]
    <3>1. text.whole = TRUE /\ text.gives \in BOOLEAN /\ text.asks \in SUBSET (Files \ {f})
      BY <2>2
    <3> QED
      BY <3>1
  <2> QED
    BY <2>1, <2>2 DEF IsText, Texts
<1> QED
  BY <1>1, <1>2 DEF Exports

\* What a document is made of; none is no document.
LEMMA DocumentTypes ==
    /\ NoText \notin Documents
    /\ \A d \in Documents : d # NoText /\ d = [text |-> d.text, defines |-> d.defines]
                            /\ d.text \in AnyText /\ d.defines \in BOOLEAN
    /\ \A text \in AnyText, b \in BOOLEAN : [text |-> text, defines |-> b] \in Documents
BY NoTextAssumption DEF Documents, AnyText

\* Indexing texts: the index says what they say, and the same of other files.
LEMMA IndexedSays ==
    ASSUME Types, NEW texts, DOMAIN texts \subseteq Files,
           \A f \in DOMAIN texts : IsText(f, texts[f])
    PROVE  /\ Indexed(texts) \in IndexType
           /\ Indexed(texts).listed = index.listed
           /\ \A f \in DOMAIN texts : Says(Indexed(texts), f, texts[f])
           /\ \A f \in Files \ DOMAIN texts :
                 /\ Indexed(texts).exports[f] = index.exports[f]
                 /\ Indexed(texts).imports[f] = index.imports[f]
                 /\ f \in Indexed(texts).errors <=> f \in index.errors
<1> DEFINE ix == Indexed(texts)
           parsed == {f \in DOMAIN texts : texts[f].whole}
<1>1. index \in [exports : [Files -> SUBSET (Files \union {"own", "not indexed"})],
                 imports : [Files -> SUBSET Files],
                 errors : SUBSET Files, listed : SUBSET Files]
  BY DEF Types, IndexType
<1> DEFINE errors == (index.errors \ DOMAIN texts)
                       \union {f \in DOMAIN texts : ~Compiles(texts[f])}
           imports == [f \in Files |-> IF f \in parsed THEN texts[f].asks
                                       ELSE index.imports[f]]
           exports == [f \in Files |-> IF f \in parsed THEN Exports(texts[f])
                                       ELSE index.exports[f]]
<1>2. /\ ix.listed = index.listed /\ ix.errors = errors
      /\ ix.imports = imports /\ ix.exports = exports
      /\ ix = [exports |-> ix.exports, imports |-> ix.imports,
               errors |-> ix.errors, listed |-> ix.listed]
  <2>1. ix = [index EXCEPT !.errors = errors, !.imports = imports, !.exports = exports]
    BY DEF Indexed
  <2> HIDE DEF ix, errors, imports, exports
  <2> QED
    BY <2>1, <1>1
<1>3. \A f \in DOMAIN texts : /\ texts[f].asks \in SUBSET Files
                              /\ Exports(texts[f]) \in SUBSET (Files \union {"own", "not indexed"})
                              /\ texts[f] # NoText
  BY TextTypes
<1> HIDE DEF ix
<1>4. /\ ix.exports \in [Files -> SUBSET (Files \union {"own", "not indexed"})]
      /\ ix.imports \in [Files -> SUBSET Files]
      /\ ix.errors \in SUBSET Files
      /\ ix.listed \in SUBSET Files
  <2>1. \A f \in parsed : /\ texts[f].asks \in SUBSET Files
                          /\ Exports(texts[f]) \in SUBSET (Files \union {"own", "not indexed"})
    BY <1>3
  <2>2. /\ index.exports \in [Files -> SUBSET (Files \union {"own", "not indexed"})]
        /\ index.imports \in [Files -> SUBSET Files]
        /\ index.errors \in SUBSET Files /\ index.listed \in SUBSET Files
    BY <1>1
  <2> HIDE DEF parsed
  <2>3. imports \in [Files -> SUBSET Files]
    BY <2>1, <2>2
  <2>4. exports \in [Files -> SUBSET (Files \union {"own", "not indexed"})]
    BY <2>1, <2>2
  <2>5. errors \in SUBSET Files
    BY <2>2
  <2> HIDE DEF imports, exports, errors
  <2> QED
    BY <1>2, <2>2, <2>3, <2>4, <2>5
<1>5. ASSUME NEW f \in DOMAIN texts
      PROVE  Says(ix, f, texts[f])
  <2>1. ~texts[f].whole => f \in ix.errors
    BY <1>2 DEF Compiles
  <2>2. ASSUME texts[f].whole
        PROVE  /\ ix.exports[f] = Exports(texts[f]) /\ ix.imports[f] = texts[f].asks
               /\ texts[f].asks = {} => f \notin ix.errors
    <3>1. f \in parsed /\ f \in Files
      BY <2>2
    <3>2. texts[f].asks = {} => Compiles(texts[f])
      BY <2>2 DEF Compiles, Refused
    <3> HIDE DEF parsed
    <3> QED
      BY <1>2, <3>1, <3>2
  <2> QED
    BY <2>1, <2>2, <1>3 DEF Says
<1>6. \A f \in Files \ DOMAIN texts :
         /\ ix.exports[f] = index.exports[f]
         /\ ix.imports[f] = index.imports[f]
         /\ f \in ix.errors <=> f \in index.errors
  BY <1>2
<1>7. ix \in IndexType
  BY <1>2, <1>4 DEF IndexType
<1> QED
  BY <1>2, <1>5, <1>6, <1>7 DEF ix

\* A file that leaves the index takes nothing of another with it.
LEMMA UnindexedSays ==
    ASSUME Types, NEW f \in Files
    PROVE  /\ Unindexed(f) \in IndexType
           /\ Says(Unindexed(f), f, NoText)
           /\ \A g \in Files \ {f} :
                 /\ Unindexed(f).exports[g] = index.exports[g]
                 /\ Unindexed(f).imports[g] = index.imports[g]
                 /\ g \in Unindexed(f).errors <=> g \in index.errors
                 /\ g \in Unindexed(f).listed <=> g \in index.listed
BY DEF Types, IndexType, Unindexed, Says, Nothing

\* What the index says of a file depends on its own entries only.
LEMMA SaysAlike ==
    ASSUME NEW ix, NEW jx, NEW f,
           ix.exports[f] = jx.exports[f], ix.imports[f] = jx.imports[f],
           f \in ix.errors <=> f \in jx.errors
    PROVE  \A text : Says(ix, f, text) <=> Says(jx, f, text)
BY DEF Says

----
\* What a message on its way says of the server's document.

\* A message about another file, or that does not change documents, is sent.
LEMMA SentKeepsDocuments ==
    ASSUME mail \in Seq(Message), NEW m \in Message, mail' = Append(mail, m),
           NEW f, ~(m.file = f /\ m.kind \in DocumentKinds),
           buffer'[f] = buffer[f], cache'[f] = cache[f],
           DocumentsArrive(f), ComesInOrder(f)
    PROVE  DocumentsArrive(f)' /\ ComesInOrder(f)'
<1>1. DocumentsArrive(f)'
  BY AppendedOther DEF DocumentsArrive, DocumentIs, BufferIs
<1>2. /\ \A i : About(mail', {"close"}, f, i) <=> About(mail, {"close"}, f, i)
      /\ \A i : About(mail', OpenKinds, f, i) <=> About(mail, OpenKinds, f, i)
      /\ \A i : About(mail', {"open", "change"}, f, i) <=> About(mail, {"open", "change"}, f, i)
  BY AppendedOther DEF DocumentKinds, OpenKinds
<1>3. DOMAIN mail \subseteq DOMAIN mail'
  BY AppendedIs
<1>4. ComesInOrder(f)'
  BY <1>2, <1>3 DEF ComesInOrder, About
<1> QED
  BY <1>1, <1>4

\* The editor sends what it did to a document.
LEMMA SentDocument ==
    ASSUME mail \in Seq(Message), NEW m \in Message, mail' = Append(mail, m),
           NEW f, m.file = f, m.kind \in DocumentKinds, BufferIs(f, m)',
           m.kind \in OpenKinds => buffer[f] # NoText, cache'[f] = cache[f],
           DocumentsArrive(f), ComesInOrder(f)
    PROVE  DocumentsArrive(f)' /\ ComesInOrder(f)'
<1>1. DocumentsArrive(f)'
  BY AppendedLast DEF DocumentsArrive
<1> DEFINE n == Len(mail) + 1
<1>2. /\ Len(mail) \in Nat /\ DOMAIN mail = 1 .. Len(mail) /\ DOMAIN mail' = 1 .. n
      /\ \A i \in DOMAIN mail : mail'[i] = mail[i]
      /\ mail'[n] = m
  BY AppendedIs
<1>3. /\ \A i \in DOMAIN mail' : i \in DOMAIN mail \/ i = n
      /\ DOMAIN mail \subseteq DOMAIN mail'
      /\ \A i \in DOMAIN mail : i < n
      /\ ~(n < n)
  BY <1>2
<1> HIDE DEF n
<1>4. \A i \in DOMAIN mail : \A kinds : About(mail', kinds, f, i) <=> About(mail, kinds, f, i)
  BY <1>2, <1>3 DEF About
<1>5. ASSUME m.kind \in OpenKinds
      PROVE  /\ \A i \in DOMAIN mail : About(mail, {"close"}, f, i) =>
                  \E k \in DOMAIN mail : i < k /\ About(mail, {"open", "change"}, f, k)
             /\ cache[f] = NoText =>
                  \E k \in DOMAIN mail : About(mail, {"open", "change"}, f, k)
  <2>1. CASE NoneAbout(mail, DocumentKinds, f) /\ DocumentIs(f)
    BY <1>5, <2>1 DEF NoneAbout, DocumentIs, DocumentKinds, About
  <2>2. ASSUME NEW x \in Message, LastIs(mail, DocumentKinds, f, x), BufferIs(f, x)
        PROVE  \E k \in DOMAIN mail :
                  /\ About(mail, {"open", "change"}, f, k)
                  /\ \A i \in DOMAIN mail : About(mail, {"close"}, f, i) => i < k
    <3>1. PICK k \in DOMAIN mail :
             /\ About(mail, DocumentKinds, f, k) /\ mail[k] = x
             /\ \A i \in DOMAIN mail : About(mail, DocumentKinds, f, i) => i <= k
      BY <2>2 DEF LastIs
    <3>2. x.kind # "close"
      BY <1>5, <2>2 DEF BufferIs
    <3>3. About(mail, {"open", "change"}, f, k)
      BY <3>1, <3>2 DEF About, DocumentKinds
    <3>4. ASSUME NEW i \in DOMAIN mail, About(mail, {"close"}, f, i)
          PROVE  i < k
      <4>1. i <= k /\ i # k
        BY <3>1, <3>2, <3>4 DEF About, DocumentKinds
      <4>2. i \in Nat /\ k \in Nat
        BY <1>2
      <4> QED
        BY <4>1, <4>2
    <3> QED
      BY <3>3, <3>4
  <2> QED
    BY <2>1, <2>2 DEF DocumentsArrive
<1>6. ASSUME NEW j \in DOMAIN mail', About(mail', OpenKinds, f, j)
      PROVE  /\ \A i \in DOMAIN mail' : i < j /\ About(mail', {"close"}, f, i) =>
                  \E k \in DOMAIN mail' :
                     i < k /\ k < j /\ About(mail', {"open", "change"}, f, k)
             /\ cache'[f] = NoText =>
                  \E k \in DOMAIN mail' : k < j /\ About(mail', {"open", "change"}, f, k)
  <2>1. CASE j \in DOMAIN mail
    <3>1. About(mail, OpenKinds, f, j)
      BY <1>4, <1>6, <2>1
    <3>2. \A i \in DOMAIN mail' : i < j => i \in DOMAIN mail
      BY <1>2, <2>1 DEF n
    <3> QED
      BY <1>3, <1>4, <2>1, <3>1, <3>2 DEF ComesInOrder
  <2>2. CASE j = n
    <3>1. m.kind \in OpenKinds
      BY <1>2, <1>6, <2>2 DEF About
    <3> QED
      BY <1>3, <1>4, <1>5, <2>2, <3>1
  <2> QED
    BY <1>3, <2>1, <2>2
<1>7. ComesInOrder(f)'
  BY <1>6 DEF ComesInOrder
<1> QED
  BY <1>1, <1>7

\* The server takes a message about another file, or that does not change
\* documents.
LEMMA TakenKeepsDocuments ==
    ASSUME mail \in Seq(Message), mail # <<>>, mail' = Tail(mail),
           NEW f, ~(Head(mail).file = f /\ Head(mail).kind \in DocumentKinds),
           buffer'[f] = buffer[f], cache'[f] = cache[f],
           DocumentsArrive(f), ComesInOrder(f)
    PROVE  DocumentsArrive(f)' /\ ComesInOrder(f)'
<1>1. DocumentsArrive(f)'
  BY TakenOther DEF DocumentsArrive, DocumentIs, BufferIs
<1>2. ASSUME NEW j \in DOMAIN mail', About(mail', OpenKinds, f, j)
      PROVE  /\ \A i \in DOMAIN mail' : i < j /\ About(mail', {"close"}, f, i) =>
                  \E k \in DOMAIN mail' :
                     i < k /\ k < j /\ About(mail', {"open", "change"}, f, k)
             /\ cache'[f] = NoText =>
                  \E k \in DOMAIN mail' : k < j /\ About(mail', {"open", "change"}, f, k)
  <2>1. /\ 1 \in DOMAIN mail /\ Head(mail) = mail[1]
        /\ Len(mail) \in Nat \ {0} /\ DOMAIN mail = 1 .. Len(mail)
        /\ DOMAIN mail' = 1 .. Len(mail) - 1
    BY TakenIs
  <2>2. /\ \A i : About(mail', {"close"}, f, i) =>
                     i + 1 \in DOMAIN mail /\ About(mail, {"close"}, f, i + 1)
        /\ \A i : About(mail', OpenKinds, f, i) =>
                     i + 1 \in DOMAIN mail /\ About(mail, OpenKinds, f, i + 1)
        /\ \A k \in DOMAIN mail : k # 1 /\ About(mail, {"open", "change"}, f, k) =>
              k - 1 \in DOMAIN mail' /\ About(mail', {"open", "change"}, f, k - 1)
    BY TakenOther
  <2>3. ~About(mail, {"open", "change"}, f, 1)
    BY <2>1 DEF About, DocumentKinds
  <2>4. \A k \in DOMAIN mail : About(mail, {"open", "change"}, f, k) =>
           k - 1 \in DOMAIN mail' /\ About(mail', {"open", "change"}, f, k - 1)
    BY <2>2, <2>3
  <2>5. j + 1 \in DOMAIN mail /\ About(mail, OpenKinds, f, j + 1)
    BY <1>2, <2>2
  <2>6. ASSUME NEW i \in DOMAIN mail', i < j, About(mail', {"close"}, f, i)
        PROVE  \E k \in DOMAIN mail' :
                  i < k /\ k < j /\ About(mail', {"open", "change"}, f, k)
    <3>1. i + 1 \in DOMAIN mail /\ About(mail, {"close"}, f, i + 1) /\ i + 1 < j + 1
      BY <2>1, <2>2, <2>6
    <3>2. PICK k \in DOMAIN mail :
             i + 1 < k /\ k < j + 1 /\ About(mail, {"open", "change"}, f, k)
      BY <2>5, <3>1 DEF ComesInOrder
    <3>3. i < k - 1 /\ k - 1 < j
      BY <2>1, <3>2
    <3> QED
      BY <2>4, <3>2, <3>3
  <2>7. ASSUME cache'[f] = NoText
        PROVE  \E k \in DOMAIN mail' : k < j /\ About(mail', {"open", "change"}, f, k)
    <3>1. PICK k \in DOMAIN mail : k < j + 1 /\ About(mail, {"open", "change"}, f, k)
      BY <2>5, <2>7 DEF ComesInOrder
    <3>2. k - 1 < j
      BY <2>1, <3>1
    <3> QED
      BY <2>4, <3>1, <3>2
  <2> QED
    BY <2>6, <2>7
<1>3. ComesInOrder(f)'
  BY <1>2 DEF ComesInOrder
<1> QED
  BY <1>1, <1>3

\* The server takes a message that changes the document of f.
LEMMA TakenDocument ==
    ASSUME mail \in Seq(Message), mail # <<>>, mail' = Tail(mail),
           NEW f, Head(mail).file = f, Head(mail).kind \in DocumentKinds,
           buffer'[f] = buffer[f],
           IF Head(mail).kind = "close" THEN cache'[f] = NoText
           ELSE cache'[f] # NoText /\ cache'[f].text = Head(mail).text,
           DocumentsArrive(f), ComesInOrder(f)
    PROVE  DocumentsArrive(f)' /\ ComesInOrder(f)'
<1>1. DocumentsArrive(f)'
  <2>1. PICK m \in Message : LastIs(mail, DocumentKinds, f, m) /\ BufferIs(f, m)
    <3>1. ~NoneAbout(mail, DocumentKinds, f)
      BY TakenIs DEF NoneAbout, About
    <3> QED
      BY <3>1 DEF DocumentsArrive
  <2>2. BufferIs(f, m)'
    BY <2>1 DEF BufferIs
  <2>3. CASE LastIs(mail', DocumentKinds, f, m)
    BY <2>2, <2>3 DEF DocumentsArrive
  <2>4. CASE m = Head(mail) /\ NoneAbout(mail', DocumentKinds, f)
    <3>1. DocumentIs(f)'
      BY <2>1, <2>4 DEF BufferIs, DocumentIs
    <3> QED
      BY <2>4, <3>1 DEF DocumentsArrive
  <2> QED
    BY <2>1, <2>3, <2>4, TakenOther
<1>2. /\ 1 \in DOMAIN mail /\ Head(mail) = mail[1]
      /\ Len(mail) \in Nat \ {0} /\ DOMAIN mail = 1 .. Len(mail)
      /\ DOMAIN mail' = 1 .. Len(mail) - 1
  BY TakenIs
<1>3. /\ \A i : About(mail', {"close"}, f, i) =>
                   i + 1 \in DOMAIN mail /\ About(mail, {"close"}, f, i + 1)
      /\ \A i : About(mail', OpenKinds, f, i) =>
                   i + 1 \in DOMAIN mail /\ About(mail, OpenKinds, f, i + 1)
      /\ \A k \in DOMAIN mail : k # 1 /\ About(mail, {"open", "change"}, f, k) =>
            k - 1 \in DOMAIN mail' /\ About(mail', {"open", "change"}, f, k - 1)
  BY TakenOther
<1>4. ASSUME NEW j \in DOMAIN mail', About(mail', OpenKinds, f, j)
      PROVE  /\ \A i \in DOMAIN mail' : i < j /\ About(mail', {"close"}, f, i) =>
                  \E k \in DOMAIN mail' :
                     i < k /\ k < j /\ About(mail', {"open", "change"}, f, k)
             /\ cache'[f] = NoText =>
                  \E k \in DOMAIN mail' : k < j /\ About(mail', {"open", "change"}, f, k)
  <2>1. j + 1 \in DOMAIN mail /\ About(mail, OpenKinds, f, j + 1)
    BY <1>3, <1>4
  <2>2. ASSUME NEW i \in DOMAIN mail', i < j, About(mail', {"close"}, f, i)
        PROVE  \E k \in DOMAIN mail' :
                  i < k /\ k < j /\ About(mail', {"open", "change"}, f, k)
    <3>1. i + 1 \in DOMAIN mail /\ About(mail, {"close"}, f, i + 1) /\ i + 1 < j + 1
      BY <1>2, <1>3, <2>2
    <3>2. PICK k \in DOMAIN mail :
             i + 1 < k /\ k < j + 1 /\ About(mail, {"open", "change"}, f, k)
      BY <2>1, <3>1 DEF ComesInOrder
    <3>3. i < k - 1 /\ k - 1 < j /\ k # 1
      BY <1>2, <3>2
    <3> QED
      BY <1>3, <3>2, <3>3
  <2>3. ASSUME cache'[f] = NoText
        PROVE  \E k \in DOMAIN mail' : k < j /\ About(mail', {"open", "change"}, f, k)
    <3>1. About(mail, {"close"}, f, 1) /\ 1 < j + 1
      BY <1>2, <2>3 DEF About, DocumentKinds
    <3>2. PICK k \in DOMAIN mail :
             1 < k /\ k < j + 1 /\ About(mail, {"open", "change"}, f, k)
      BY <1>2, <2>1, <3>1 DEF ComesInOrder
    <3>3. k # 1 /\ k - 1 < j
      BY <1>2, <3>2
    <3> QED
      BY <1>3, <3>2, <3>3
  <2> QED
    BY <2>2, <2>3
<1>5. ComesInOrder(f)'
  BY <1>4 DEF ComesInOrder
<1> QED
  BY <1>1, <1>5

----
\* What a report on its way says of the disk.

\* Nothing is reported of f, and what is said of it stays.
LEMMA ReportsStay ==
    ASSUME NEW f, disk'[f] = disk[f],
           NoneAbout(seen, ReportKinds, f) => NoneAbout(seen', ReportKinds, f),
           \A x : LastIs(seen, ReportKinds, f, x) => LastIs(seen', ReportKinds, f, x),
           NoneAbout(mail, ReportKinds, f) => NoneAbout(mail', ReportKinds, f),
           \A x : LastIs(mail, ReportKinds, f, x) => LastIs(mail', ReportKinds, f, x),
           ReportsArrive(f)
    PROVE  ReportsArrive(f)'
BY DEF ReportsArrive, Matches

\* A message is taken.
LEMMA TakenReport ==
    ASSUME mail \in Seq(Message), mail # <<>>, mail' = Tail(mail), seen' = seen,
           NEW f, disk'[f] = disk[f], ReportsArrive(f)
    PROVE  ReportsArrive(f)'
<1>1. NoneAbout(mail, ReportKinds, f) => NoneAbout(mail', ReportKinds, f)
  BY TakenOther
<1>2. \A x : LastIs(mail, ReportKinds, f, x) =>
         LastIs(mail', ReportKinds, f, x) \/ NoneAbout(mail', ReportKinds, f)
  BY TakenOther
<1> QED
  BY <1>1, <1>2 DEF ReportsArrive, Matches

\* The watcher hands its first report over.
LEMMA HandedOver ==
    ASSUME mail \in Seq(Message), SeenTyped, seen # <<>>,
           mail' = Append(mail, Head(seen)), seen' = Tail(seen),
           NEW f, disk'[f] = disk[f], ReportsArrive(f)
    PROVE  ReportsArrive(f)'
<1>1. Head(seen) \in Message /\ seen \in Seq(Message)
  BY TakenIs DEF SeenTyped
<1>2. CASE Head(seen).file = f /\ Head(seen).kind \in ReportKinds
  <2>1. LastIs(mail', ReportKinds, f, Head(seen))
    BY <1>1, <1>2, AppendedLast
  <2>2. PICK m \in Message : LastIs(seen, ReportKinds, f, m) /\ Matches(f, m)
    <3>1. ~NoneAbout(seen, ReportKinds, f)
      BY <1>1, <1>2, TakenIs DEF NoneAbout, About
    <3> QED
      BY <3>1 DEF ReportsArrive
  <2>3. \/ LastIs(seen', ReportKinds, f, m)
        \/ m = Head(seen) /\ NoneAbout(seen', ReportKinds, f)
    BY <1>1, <2>2, TakenOther
  <2> QED
    BY <2>1, <2>2, <2>3 DEF ReportsArrive, Matches
<1>3. CASE ~(Head(seen).file = f /\ Head(seen).kind \in ReportKinds)
  <2>1. /\ NoneAbout(mail, ReportKinds, f) => NoneAbout(mail', ReportKinds, f)
        /\ \A x : LastIs(mail, ReportKinds, f, x) => LastIs(mail', ReportKinds, f, x)
    BY <1>1, <1>3, AppendedOther
  <2>2. /\ NoneAbout(seen, ReportKinds, f) => NoneAbout(seen', ReportKinds, f)
        /\ \A x : LastIs(seen, ReportKinds, f, x) => LastIs(seen', ReportKinds, f, x)
    BY <1>1, <1>3, TakenOther
  <2> QED
    BY <2>1, <2>2, ReportsStay
<1> QED
  BY <1>2, <1>3

\* The watcher sees that f was written or removed.
LEMMA ReportSeen ==
    ASSUME seen \in Seq(Message), NEW m \in Message, seen' = Append(seen, m),
           NEW f, m.file = f, m.kind \in ReportKinds, Matches(f, m)'
    PROVE  ReportsArrive(f)'
<1>1. LastIs(seen', ReportKinds, f, m)
  BY AppendedLast
<1> QED
  BY <1>1 DEF ReportsArrive

----
\* What the index and the diagnostics say.

\* Nothing the index says of f, or that would change it, has changed.
LEMMA IndexStays ==
    ASSUME NEW f, f \notin lost' => f \notin lost, cache'[f] = cache[f],
           index'.exports[f] = index.exports[f],
           index'.imports[f] = index.imports[f],
           f \in index'.errors <=> f \in index.errors,
           cache[f] = NoText /\ disk'[f] # disk[f] /\ f \notin lost' => UnderWay(f)',
           cache[f] = NoText /\ disk'[f] = disk[f] /\ UnderWay(f) =>
               UnderWay(f)' \/ Says(index', f, disk'[f]),
           IndexRight(f)
    PROVE  IndexRight(f)'
<1>1. \A text : Says(index', f, text) <=> Says(index, f, text)
  BY SaysAlike
<1> QED
  BY <1>1 DEF IndexRight

\* A text that asks one file only.
LEMMA AskingOnly ==
    ASSUME NEW f, NEW text, IsText(f, text), NEW g
    PROVE  [text EXCEPT !.asks = {g}].asks = {g}
<1>1. CASE text = Broken
  BY <1>1 DEF Broken
<1>2. CASE text \in [whole : {TRUE}, gives : BOOLEAN, asks : SUBSET (Files \ {f})]
  BY <1>2
<1> QED
  BY <1>1, <1>2 DEF IsText, Texts

\* Followed, of any disk.
FollowedOn(d, g) ==
    \E met \in SUBSET Files : \E depth \in [met -> 0 .. MaxHops] :
        /\ g \in met
        /\ \A h \in met : d[h] # NoText /\ d[h].whole
        /\ \A h \in met : \A k \in d[h].asks :
              k \in met /\ depth[k] > depth[h] /\ d[k].gives

\* No re-export leads to a file that no file asks: what is followed from another
\* is followed without it.
LEMMA FollowedWithout ==
    ASSUME NEW d, NEW e, NEW g, \A h \in Files \ {g} : e[h] = d[h],
           \A h \in Files : d[h] # NoText => g \notin d[h].asks,
           NEW f \in Files \ {g}, FollowedOn(d, f)
    PROVE  FollowedOn(e, f)
<1> DEFINE Leads(met, depth) ==
             /\ f \in met
             /\ \A h \in met : d[h] # NoText /\ d[h].whole
             /\ \A h \in met : \A k \in d[h].asks :
                   k \in met /\ depth[k] > depth[h] /\ d[k].gives
<1>0. PICK met \in SUBSET Files : \E depth \in [met -> 0 .. MaxHops] : Leads(met, depth)
  BY DEF FollowedOn
<1>1. PICK depth \in [met -> 0 .. MaxHops] : Leads(met, depth)
  BY <1>0
<1> DEFINE other == met \ {g}
           deep == [h \in other |-> depth[h]]
<1>2. other \in SUBSET Files /\ f \in other /\ \A h \in other : h \in met /\ h # g
  BY <1>1
<1>3. deep \in [other -> 0 .. MaxHops] /\ \A h \in other : deep[h] = depth[h]
  BY <1>2
<1>4. \A h \in other : e[h] = d[h] /\ \A k \in d[h].asks : k \in other
  BY <1>1, <1>2
<1> HIDE DEF other, deep
<1>5. \A h \in other : e[h] # NoText /\ e[h].whole
  BY <1>1, <1>2, <1>4
<1>6. ASSUME NEW h \in other, NEW k \in e[h].asks
      PROVE  k \in other /\ deep[k] > deep[h] /\ e[k].gives
  <2>1. k \in d[h].asks /\ k \in other
    BY <1>4
  <2>2. depth[k] > depth[h] /\ d[k].gives
    BY <1>1, <1>2, <2>1
  <2> QED
    BY <1>3, <1>4, <2>1, <2>2
<1> QED
  BY <1>2, <1>3, <1>5, <1>6 DEF FollowedOn

\* So the text of a file that no file asks says nothing of where another's
\* re-exports lead.
LEMMA FollowedElsewhere ==
    ASSUME NEW g \in Files, NEW text, text # NoText => IsText(g, text),
           \A h \in Files : disk'[h] = IF h = g THEN text ELSE disk[h],
           ~IsAsked(g), NEW f \in Files \ {g}
    PROVE  Followed(f)' <=> Followed(f)
<1>1. \A h \in Files : disk[h] # NoText => g \notin disk[h].asks
  BY DEF IsAsked
<1>2. \A h \in Files : disk'[h] # NoText => g \notin (disk'[h]).asks
  BY <1>1, TextTypes
<1>3. \A h \in Files \ {g} : disk'[h] = disk[h]
  OBVIOUS
<1>4. FollowedOn(disk, f) => FollowedOn(disk', f)
  BY <1>1, <1>3, FollowedWithout
<1>5. FollowedOn(disk', f) => FollowedOn(disk, f)
  BY <1>2, <1>3, FollowedWithout
<1>6. Followed(f) <=> FollowedOn(disk, f)
  BY DEF Followed, FollowedOn
<1>7. Followed(f)' <=> FollowedOn(disk', f)
  BY DEF Followed, FollowedOn
<1> QED
  BY <1>4, <1>5, <1>6, <1>7

\* The diagnostics of a text read of the index its exports, imports and errors,
\* and of the disk the files the text asks for and where their re-exports lead.
LEMMA DiagnoseStays ==
    ASSUME NEW f, cache'[f] = cache[f], IsText(f, cache[f].text),
           index'.exports = index.exports, index'.imports = index.imports,
           index'.errors = index.errors,
           \A g \in cache[f].text.asks :
              disk'[g] = disk[g] /\ (Followed(g)' <=> Followed(g))
    PROVE  Diagnose(index, f, cache[f].text)' = Diagnose(index, f, cache[f].text)
<1> DEFINE text == cache[f].text
           refused == {g \in text.asks : Refused([text EXCEPT !.asks = {g}])}
           missing == {g \in text.asks : disk[g] = NoText}
           unexported == {g \in text.asks \intersect index.imports[f] :
                             index.exports[g] # Nothing /\ "own" \notin index.exports[g]}
           failing == text.asks \intersect index.errors
<1>1. text' = text
  OBVIOUS
<1>2. InACycle(index, f)' <=> InACycle(index, f)
  BY DEF InACycle
<1>3. refused' = refused
  <2>1. ASSUME NEW g \in text.asks
        PROVE  Refused([text EXCEPT !.asks = {g}])' <=> Refused([text EXCEPT !.asks = {g}])
    <3> DEFINE only == [text EXCEPT !.asks = {g}]
    <3>1. only' = only
      BY <1>1
    <3>2. only.asks = {g}
      BY AskingOnly
    <3>3. disk'[g] = disk[g] /\ (Followed(g)' <=> Followed(g))
      BY <2>1
    <3> HIDE DEF only, text
    <3>4. Refused(only)' <=> Refused(only)
      BY <3>1, <3>2, <3>3 DEF Refused
    <3> QED
      BY <3>4 DEF only
  <2> HIDE DEF text
  <2> QED
    BY <1>1, <2>1
<1>4. missing' = missing
  BY <1>1
<1>5. unexported' = unexported /\ failing' = failing
  BY <1>1
<1> HIDE DEF refused, missing, unexported, failing, text
<1>6. /\ Diagnose(index, f, text) =
           (IF ~text.whole THEN {<<"syntax">>}
            ELSE {<<"types", g>> : g \in refused}
              \union (IF InACycle(index, f) THEN {<<"cycle">>} ELSE {})
              \union {<<"has errors", g>> : g \in failing}
              \union {<<"not found", g>> : g \in missing}
              \union {<<"not exported", g>> : g \in unexported})
  BY DEF Diagnose, refused, missing, unexported, failing
<1>7. /\ Diagnose(index, f, text)' =
           (IF ~text'.whole THEN {<<"syntax">>}
            ELSE {<<"types", g>> : g \in refused'}
              \union (IF InACycle(index, f)' THEN {<<"cycle">>} ELSE {})
              \union {<<"has errors", g>> : g \in failing'}
              \union {<<"not found", g>> : g \in missing'}
              \union {<<"not exported", g>> : g \in unexported'})
  BY DEF Diagnose, refused, missing, unexported, failing
<1>8. Diagnose(index, f, text)' = Diagnose(index, f, text)
  BY <1>1, <1>2, <1>3, <1>4, <1>5, <1>6, <1>7
<1> QED
  BY <1>8 DEF text

\* The diagnostics of f stay what they are.
LEMMA ShownStaysOf ==
    ASSUME NEW f, cache'[f] = cache[f], shown'[f] = shown[f],
           f \notin lost' \union since' => f \notin lost \union since,
           cache[f] # NoText /\ f \notin lost' \union since' =>
             /\ index'.exports = index.exports
             /\ index'.imports = index.imports
             /\ index'.errors = index.errors
             /\ \A g \in cache[f].text.asks :
                   disk'[g] = disk[g] /\ (Followed(g)' <=> Followed(g))
             /\ IsText(f, cache[f].text),
           ShownRight(f)
    PROVE  ShownRight(f)'
<1>1. CASE cache[f] # NoText /\ f \notin lost' \union since'
  <2>1. Diagnose(index, f, cache[f].text)' = Diagnose(index, f, cache[f].text)
    BY <1>1, DiagnoseStays
  <2>2. shown'[f] = Diagnose(index, f, cache[f].text)'
    BY <1>1, <2>1 DEF ShownRight
  <2> QED
    BY <1>1, <2>2 DEF ShownRight
<1>2. CASE ~(cache[f] # NoText /\ f \notin lost' \union since')
  BY <1>2 DEF ShownRight
<1> QED
  BY <1>1, <1>2

\* They do when nothing is written.
LEMMA ShownStays ==
    ASSUME NEW f, disk' = disk, cache'[f] = cache[f], shown'[f] = shown[f],
           f \notin lost' \union since' => f \notin lost \union since,
           cache[f] # NoText /\ f \notin lost' \union since' =>
             /\ index'.exports = index.exports
             /\ index'.imports = index.imports
             /\ index'.errors = index.errors
             /\ IsText(f, cache[f].text),
           ShownRight(f)
    PROVE  ShownRight(f)'
<1>1. \A g : Followed(g)' <=> Followed(g)
  BY DEF Followed
<1> QED
  BY <1>1, ShownStaysOf

----
\* Types and the greeting, message by message.

\* A message with a text of its file is sent.
LEMMA SentTyped ==
    ASSUME MailTyped, NEW m \in Message, mail' = Append(mail, m),
           m.kind \in {"open", "change"} => IsText(m.file, m.text)
    PROVE  MailTyped'
<1>1. mail \in Seq(Message)
  BY DEF MailTyped
<1>2. /\ mail' \in Seq(Message)
      /\ \A i \in DOMAIN mail' : (i \in DOMAIN mail /\ mail'[i] = mail[i]) \/ mail'[i] = m
  <2>1. /\ mail' \in Seq(Message)
        /\ Len(mail) \in Nat /\ DOMAIN mail = 1 .. Len(mail)
        /\ DOMAIN mail' = 1 .. Len(mail) + 1
        /\ \A i \in 1 .. Len(mail) : mail'[i] = mail[i]
        /\ mail'[Len(mail) + 1] = m
    BY <1>1, AppendedIs
  <2>2. \A i \in DOMAIN mail' : i \in DOMAIN mail \/ i = Len(mail) + 1
    BY <2>1
  <2> QED
    BY <2>1, <2>2
<1> QED
  BY <1>2 DEF MailTyped, IsText

\* The first message is taken: it has a text of its file.
LEMMA TakenTyped ==
    ASSUME MailTyped, mail # <<>>, mail' = Tail(mail)
    PROVE  /\ MailTyped' /\ Head(mail) \in Message
           /\ Head(mail).kind \in {"open", "change"} => IsText(Head(mail).file, Head(mail).text)
<1>1. mail \in Seq(Message)
  BY DEF MailTyped
<1>2. /\ mail' \in Seq(Message) /\ Head(mail) \in Message
      /\ \A i \in DOMAIN mail' : i + 1 \in DOMAIN mail /\ mail'[i] = mail[i + 1]
      /\ Head(mail) = mail[1] /\ 1 \in DOMAIN mail
  BY <1>1, TakenIs
<1> QED
  BY <1>2 DEF MailTyped, IsText

\* Before the scan, and before the client watches, nothing is reported.
LEMMA GreetedSent ==
    ASSUME MailTyped, Greeted, NEW m \in Message, mail' = Append(mail, m),
           m.kind # "initialized",
           m.kind \in ReportKinds => client.place = "watching",
           client'.place = client.place, UNCHANGED <<cache, index>>,
           client.place # "watching" => seen' = seen
    PROVE  Greeted'
<1>1. mail \in Seq(Message)
  BY DEF MailTyped
<1>2. /\ Len(mail) \in Nat /\ DOMAIN mail = 1 .. Len(mail)
      /\ DOMAIN mail' = 1 .. Len(mail) + 1
      /\ \A i \in 1 .. Len(mail) : mail'[i] = mail[i]
      /\ mail'[Len(mail) + 1] = m
  BY <1>1, AppendedIs
<1>3. \A i \in DOMAIN mail' : i \in DOMAIN mail \/ i = Len(mail) + 1
  BY <1>2
<1>4. \A i \in DOMAIN mail' : mail'[i].kind = "initialized" =>
                                 client'.place = "opened" /\ i = 1
  BY <1>2, <1>3 DEF Greeted
<1>5. mail # <<>> => mail' # <<>> /\ Head(mail') = Head(mail)
  <2>1. mail' # <<>>
    BY <1>1, AppendProperties
  <2>2. Head(mail') = IF mail = <<>> THEN m ELSE Head(mail)
    BY <1>1, HeadTailAppend
  <2> QED
    BY <2>1, <2>2
<1>6. client.place # "watching" =>
         \A f \in Files : NoneAbout(mail, ReportKinds, f) => NoneAbout(mail', ReportKinds, f)
  BY <1>1, AppendedOther
<1> QED
  BY <1>4, <1>5, <1>6 DEF Greeted

\* The first message taken is the greeting, and no other is one.
LEMMA GreetedTaken ==
    ASSUME MailTyped, Greeted, mail # <<>>, mail' = Tail(mail), seen' = seen,
           \/ Head(mail).kind # "initialized" /\ client' = client
           \/ client'.place = "scanned" /\ client.place = "opened"
    PROVE  Greeted' /\ client'.place # "opened"
<1>1. mail \in Seq(Message)
  BY DEF MailTyped
<1>2. /\ Len(mail) \in Nat \ {0} /\ DOMAIN mail = 1 .. Len(mail)
      /\ DOMAIN mail' = 1 .. Len(mail) - 1
      /\ \A i \in DOMAIN mail' : i + 1 \in DOMAIN mail /\ mail'[i] = mail[i + 1]
  BY <1>1, TakenIs
<1>3. client'.place # "opened"
  BY DEF Greeted
<1>4. \A i \in DOMAIN mail' : mail'[i].kind # "initialized"
  <2>1. \A i \in DOMAIN mail' : i + 1 # 1
    BY <1>2
  <2> QED
    BY <1>2, <2>1 DEF Greeted
<1>5. client'.place # "watching" =>
         /\ seen' = <<>> /\ \A f \in Files : NoneAbout(mail', ReportKinds, f)
  BY <1>1, TakenOther DEF Greeted
<1> QED
  BY <1>3, <1>4, <1>5 DEF Greeted

\* What is under way stays so while messages are only added.
LEMMA UnderWayStays ==
    ASSUME MailTyped, NEW f,
           mail' = mail \/ \E m \in Message : mail' = Append(mail, m),
           ~NoneAbout(seen, ReportKinds, f) => ~NoneAbout(seen', ReportKinds, f),
           client'.place = client.place, index'.listed = index.listed,
           UnderWay(f)
    PROVE  UnderWay(f)'
<1>1. mail \in Seq(Message)
  BY DEF MailTyped
<1>2. ASSUME NEW m \in Message, mail' = Append(mail, m), NEW kinds,
             ~NoneAbout(mail, kinds, f)
      PROVE  ~NoneAbout(mail', kinds, f)
  BY <1>1, <1>2, AppendedLast, AppendedOther
<1> QED
  BY <1>2 DEF UnderWay

----
\* The editor, the disk and the watcher.

\* The editor opens, edits or closes g and says so.
LEMMA DocumentSent ==
    ASSUME Inv, NEW g \in Files, NEW m \in Message, mail' = Append(mail, m),
           m.file = g, m.kind \in DocumentKinds,
           m.kind \in {"open", "change"} => IsText(g, m.text),
           BufferIs(g, m)', m.kind \in OpenKinds => buffer[g] # NoText,
           NEW text \in AnyText \union {NoText}, text # NoText => IsText(g, text),
           buffer' = [buffer EXCEPT ![g] = text],
           client'.place = client.place, ClientTyped',
           UNCHANGED <<disk, seen, server, lost, since>>
    PROVE  Inv'
<1>1. Types /\ Names /\ Greeted /\ mail \in Seq(Message) /\ MailTyped
  BY DEF Inv, Types, MailTyped
<1>2. UNCHANGED <<disk, seen, cache, index, shown, lost, since>>
  BY DEF server
<1>3. \A f \in Files : buffer'[f] = IF f = g THEN text ELSE buffer[f]
  BY <1>1 DEF Types, TextsTyped
<1>4. Types'
  <2>1. MailTyped'
    BY <1>1, SentTyped
  <2>2. TextsTyped'
    BY <1>1, <1>2, <1>3 DEF Types, TextsTyped, IsText
  <2> QED
    BY <1>1, <1>2, <2>1, <2>2 DEF Types, SeenTyped
<1>5. Names' /\ Greeted'
  <2>1. Names'
    BY <1>1, <1>2 DEF Names
  <2>2. m.kind # "initialized" /\ m.kind \notin ReportKinds
    BY DEF DocumentKinds, ReportKinds
  <2> QED
    BY <1>1, <1>2, <2>1, <2>2, GreetedSent
<1>6. ASSUME NEW f \in Files
      PROVE  FileInv(f)'
  <2>1. FileInv(f)
    BY DEF Inv
  <2>2. DocumentsArrive(f)' /\ ComesInOrder(f)'
    <3>1. CASE f = g
      BY <1>1, <1>2, <2>1, <3>1, SentDocument DEF FileInv
    <3>2. CASE f # g
      BY <1>1, <1>2, <1>3, <2>1, <3>2, SentKeepsDocuments DEF FileInv
    <3> QED
      BY <3>1, <3>2
  <2>3. ReportsArrive(f)'
    <3>1. ~(m.file = f /\ m.kind \in ReportKinds)
      BY DEF DocumentKinds, ReportKinds
    <3>2. /\ NoneAbout(mail, ReportKinds, f) => NoneAbout(mail', ReportKinds, f)
          /\ \A x : LastIs(mail, ReportKinds, f, x) => LastIs(mail', ReportKinds, f, x)
      BY <1>1, <3>1, AppendedOther
    <3> QED
      BY <1>2, <2>1, <3>2, ReportsStay DEF FileInv
  <2>4. IndexRight(f)'
    <3>1. UnderWay(f) => UnderWay(f)'
      BY <1>1, <1>2, UnderWayStays
    <3> QED
      BY <1>2, <2>1, <3>1, IndexStays DEF FileInv
  <2>5. ShownRight(f)'
    BY <1>1, <1>2, <2>1, ShownStays DEF FileInv, Types, TextsTyped
  <2> QED
    BY <2>2, <2>3, <2>4, <2>5 DEF FileInv
<1> QED
  BY <1>4, <1>5, <1>6 DEF Inv

\* Open, Edit and Close are such steps.
LEMMA EditorKeeps ==
    ASSUME Inv, NEW g \in Files, Open(g) \/ Edit(g) \/ Close(g)
    PROVE  Inv'
<1>1. Types /\ ClientTyped /\ TextsTyped
  BY DEF Inv, Types
<1>2. ASSUME Stirs PROVE client'.place = client.place /\ ClientTyped'
  BY <1>1, <1>2 DEF Stirs, ClientTyped
<1>3. CASE Open(g)
  <2>1. PICK text : text = disk[g]
    OBVIOUS
  <2> DEFINE m == [kind |-> "open", file |-> g, text |-> text]
  <2>2. IsText(g, text) /\ text \in AnyText /\ text # NoText
    BY <1>1, <1>3, <2>1, TextTypes DEF Open, TextsTyped
  <2>3. m \in Message /\ mail' = Append(mail, m)
    BY <1>3, <2>1, <2>2, MessageKinds DEF Open, Send
  <2>4. /\ buffer' = [buffer EXCEPT ![g] = text] /\ client'.place = client.place
        /\ ClientTyped' /\ UNCHANGED <<disk, seen, server, lost, since>>
    BY <1>2, <1>3, <2>1 DEF Open
  <2>5. m.kind = "open" /\ m.file = g /\ m.text = text
    OBVIOUS
  <2> HIDE DEF m
  <2>6. BufferIs(g, m)'
    BY <1>1, <2>2, <2>4, <2>5 DEF BufferIs, TextsTyped
  <2> QED
    BY <2>2, <2>3, <2>4, <2>5, <2>6, DocumentSent DEF DocumentKinds, OpenKinds
<1>4. CASE Edit(g)
  <2>1. PICK text \in Texts(g) \ {buffer[g]} :
           /\ buffer' = [buffer EXCEPT ![g] = text]
           /\ Send("change", g, text)
    BY <1>4 DEF Edit
  <2> DEFINE m == [kind |-> "change", file |-> g, text |-> text]
  <2>2. IsText(g, text) /\ text \in AnyText /\ text # NoText /\ buffer[g] # NoText
    BY <1>4, <2>1, TextTypes DEF Edit, IsText
  <2>3. m \in Message /\ mail' = Append(mail, m)
    BY <2>1, <2>2, MessageKinds DEF Send
  <2>4. /\ client'.place = client.place
        /\ ClientTyped' /\ UNCHANGED <<disk, seen, server, lost, since>>
    BY <1>2, <1>4 DEF Edit
  <2>5. m.kind = "change" /\ m.file = g /\ m.text = text
    OBVIOUS
  <2> HIDE DEF m
  <2>6. BufferIs(g, m)'
    BY <1>1, <2>1, <2>2, <2>5 DEF BufferIs, TextsTyped
  <2> QED
    BY <2>1, <2>2, <2>3, <2>4, <2>5, <2>6, DocumentSent DEF DocumentKinds, OpenKinds
<1>5. CASE Close(g)
  <2> DEFINE m == [kind |-> "close", file |-> g, text |-> NoText]
  <2>1. m \in Message /\ mail' = Append(mail, m) /\ buffer[g] # NoText
    BY <1>5, MessageKinds DEF Close, Send
  <2>2. /\ buffer' = [buffer EXCEPT ![g] = NoText] /\ client'.place = client.place
        /\ ClientTyped' /\ UNCHANGED <<disk, seen, server, lost, since>>
    BY <1>2, <1>5 DEF Close
  <2>3. m.kind = "close" /\ m.file = g /\ m.text = NoText
    OBVIOUS
  <2> HIDE DEF m
  <2>4. BufferIs(g, m)'
    BY <1>1, <2>1, <2>2, <2>3 DEF BufferIs, TextsTyped
  <2> QED
    BY <2>1, <2>2, <2>3, <2>4, DocumentSent DEF DocumentKinds, OpenKinds
<1> QED
  BY <1>3, <1>4, <1>5

\* The disk takes a text of g, and the editor may say that it wrote it.
LEMMA DiskWritten ==
    ASSUME Inv, NEW g \in Files, NEW text \in AnyText \union {NoText},
           text # NoText => IsText(g, text), Put(g, text),
           \/ mail' = mail
           \/ \E m \in Message : mail' = Append(mail, m) /\ m.kind = "save",
           client'.place = client.place, ClientTyped', UNCHANGED <<buffer, server>>
    PROVE  Inv'
<1>1. Types /\ Names /\ Greeted /\ mail \in Seq(Message) /\ MailTyped
      /\ SeenTyped /\ seen \in Seq(Message)
  BY DEF Inv, Types, MailTyped, SeenTyped
<1>2. UNCHANGED <<buffer, cache, index, shown>>
  BY DEF server
<1>3. /\ \A f \in Files : disk'[f] = IF f = g THEN text ELSE disk[f]
      /\ since \union (Files \ {g}) \subseteq since'
      /\ IsAsked(g) => g \in since'
      /\ lost \subseteq lost'
  BY <1>1 DEF Types, TextsTyped, Put
<1> DEFINE report == [kind |-> IF text = NoText THEN "gone" ELSE "there",
                      file |-> g, text |-> NoText]
<1>4. /\ report \in Message /\ report.file = g /\ report.kind \in ReportKinds
      /\ report.kind = IF text = NoText THEN "gone" ELSE "there"
  BY MessageKinds DEF ReportKinds
<1>6. /\ client.place = "watching" => seen' = Append(seen, report)
      /\ client.place # "watching" => seen' = seen
  BY DEF Put
<1> HIDE DEF report
<1>7. Types'
  <2>1. MailTyped'
    BY <1>1, SentTyped DEF MailTyped
  <2>2. TextsTyped'
    <3>1. disk' \in [Files -> AnyText \union {NoText}]
      BY <1>1 DEF Put, Types, TextsTyped
    <3> QED
      BY <1>1, <1>2, <1>3, <3>1 DEF Types, TextsTyped, IsText
  <2>3. SeenTyped'
    <3>1. CASE seen' = Append(seen, report)
      <4>1. /\ seen' \in Seq(Message)
            /\ Len(seen) \in Nat /\ DOMAIN seen = 1 .. Len(seen)
            /\ DOMAIN seen' = 1 .. Len(seen) + 1
            /\ \A i \in 1 .. Len(seen) : seen'[i] = seen[i]
            /\ seen'[Len(seen) + 1] = report
        BY <1>1, <1>4, <3>1, AppendedIs
      <4>2. \A i \in DOMAIN seen' : i \in DOMAIN seen \/ i = Len(seen) + 1
        BY <4>1
      <4> QED
        BY <1>1, <1>4, <4>1, <4>2 DEF SeenTyped
    <3>2. CASE seen' = seen
      BY <1>1, <3>2 DEF SeenTyped
    <3> QED
      BY <1>6, <3>1, <3>2
  <2> QED
    BY <1>1, <1>2, <2>1, <2>2, <2>3 DEF Types
<1>8. Names' /\ Greeted'
  <2>1. Names'
    BY <1>1, <1>2 DEF Names
  <2>2. ASSUME mail' = mail PROVE Greeted'
    <3>1. \A f \in Files : NoneAbout(mail', ReportKinds, f) <=> NoneAbout(mail, ReportKinds, f)
      BY <2>2
    <3>2. client.place # "watching" => seen' = seen
      BY <1>6
    <3>3. client'.place # "watching" =>
             seen' = <<>> /\ \A f \in Files : NoneAbout(mail', ReportKinds, f)
      BY <1>1, <3>1, <3>2 DEF Greeted
    <3>4. client'.place = "opened" =>
             /\ mail' # <<>> /\ Head(mail').kind = "initialized"
             /\ \A f \in Files : /\ cache'[f] = NoText
                                 /\ index'.exports[f] = Nothing
                                 /\ index'.imports[f] = {}
             /\ index'.errors = {}
      BY <1>1, <1>2, <2>2 DEF Greeted
    <3>5. \A i \in DOMAIN mail' : mail'[i].kind = "initialized" =>
                                     client'.place = "opened" /\ i = 1
      BY <1>1, <2>2 DEF Greeted
    <3> QED
      BY <3>3, <3>4, <3>5 DEF Greeted
  <2>3. ASSUME NEW m \in Message, mail' = Append(mail, m), m.kind = "save"
        PROVE  Greeted'
    <3>1. m.kind # "initialized" /\ m.kind \notin ReportKinds
      BY <2>3 DEF ReportKinds
    <3> QED
      BY <1>1, <1>2, <1>6, <2>3, <3>1, GreetedSent
  <2> QED
    BY <2>1, <2>2, <2>3
<1>9. ASSUME NEW f \in Files
      PROVE  FileInv(f)'
  <2>1. FileInv(f)
    BY DEF Inv
  <2>2. DocumentsArrive(f)' /\ ComesInOrder(f)'
    <3>1. CASE mail' = mail
      BY <1>2, <2>1, <3>1 DEF FileInv, DocumentsArrive, ComesInOrder,
         DocumentIs, BufferIs
    <3>2. CASE \E m \in Message : mail' = Append(mail, m) /\ m.kind = "save"
      BY <1>1, <1>2, <2>1, <3>2, SentKeepsDocuments DEF FileInv, DocumentKinds
    <3> QED
      BY <3>1, <3>2
  <2>3. /\ NoneAbout(mail, ReportKinds, f) => NoneAbout(mail', ReportKinds, f)
        /\ \A x : LastIs(mail, ReportKinds, f, x) => LastIs(mail', ReportKinds, f, x)
    <3>1. CASE mail' = mail
      BY <3>1
    <3>2. ASSUME NEW m \in Message, mail' = Append(mail, m), m.kind = "save"
          PROVE  /\ NoneAbout(mail, ReportKinds, f) => NoneAbout(mail', ReportKinds, f)
                 /\ \A x : LastIs(mail, ReportKinds, f, x) =>
                              LastIs(mail', ReportKinds, f, x)
      <4>1. m.kind \notin ReportKinds
        BY <3>2 DEF ReportKinds
      <4> QED
        BY <1>1, <3>2, <4>1, AppendedOther
    <3> QED
      BY <3>1, <3>2
  <2>4. ReportsArrive(f)'
    <3>1. CASE client.place = "watching" /\ f = g
      <4>1. Matches(f, report)'
        BY <1>3, <1>4, <3>1 DEF Matches
      <4> QED
        BY <1>1, <1>4, <1>6, <3>1, <4>1, ReportSeen
    <3>2. CASE client.place # "watching"
      <4>1. NoneAbout(seen', ReportKinds, f) /\ NoneAbout(mail', ReportKinds, f)
        BY <1>1, <1>6, <2>3, <3>2 DEF Greeted, NoneAbout
      <4> QED
        BY <4>1 DEF ReportsArrive
    <3>3. CASE client.place = "watching" /\ f # g
      <4>1. /\ NoneAbout(seen, ReportKinds, f) => NoneAbout(seen', ReportKinds, f)
            /\ \A x : LastIs(seen, ReportKinds, f, x) => LastIs(seen', ReportKinds, f, x)
        <5>1. seen' = Append(seen, report) /\ seen \in Seq(Message) /\ report \in Message
          BY <1>1, <1>4, <1>6, <3>3
        <5>2. ~(report.file = f /\ report.kind \in ReportKinds)
          BY <1>4, <3>3
        <5> QED
          BY <5>1, <5>2, AppendedOther
      <4> QED
        BY <1>3, <2>1, <2>3, <3>3, <4>1, ReportsStay DEF FileInv
    <3> QED
      BY <3>1, <3>2, <3>3
  <2>5. ~NoneAbout(seen, ReportKinds, f) => ~NoneAbout(seen', ReportKinds, f)
    <3>1. CASE seen' = Append(seen, report)
      BY <1>1, <1>4, <3>1, AppendedLast, AppendedOther
    <3> QED
      BY <1>6, <3>1
  <2>6. UnderWay(f) => UnderWay(f)'
    BY <1>1, <1>2, <2>5, UnderWayStays
  <2>7. IndexRight(f)'
    <3>1. ASSUME cache[f] = NoText, disk'[f] # disk[f], f \notin lost'
          PROVE  UnderWay(f)'
      <4>1. f = g
        BY <1>3, <3>1
      <4>2. CASE client.place = "watching"
        <5>1. ~NoneAbout(seen', ReportKinds, f)
          BY <1>1, <1>4, <1>6, <4>1, <4>2, AppendedLast
        <5> QED
          BY <5>1 DEF UnderWay
      <4>3. CASE client.place # "watching" /\ buffer[f] = NoText
        <5>1. client.place = "opened" /\ f \in index.listed
          BY <3>1, <4>1, <4>3 DEF Put
        <5> QED
          BY <1>2, <5>1 DEF UnderWay
      <4>4. CASE buffer[f] # NoText
        <5>1. ~NoneAbout(mail, DocumentKinds, f)
          BY <2>1, <3>1, <4>4, LastOrNone DEF FileInv, DocumentsArrive, DocumentIs
        <5>2. UnderWay(f)
          BY <5>1 DEF UnderWay
        <5> QED
          BY <2>6, <5>2
      <4> QED
        BY <4>2, <4>3, <4>4
    <3> QED
      BY <1>2, <1>3, <2>1, <2>6, <3>1, IndexStays DEF FileInv
  <2>8. ShownRight(f)'
    <3>1. ASSUME cache[f] # NoText, f \notin lost' \union since'
          PROVE  /\ \A h \in cache[f].text.asks :
                       disk'[h] = disk[h] /\ (Followed(h)' <=> Followed(h))
                 /\ IsText(f, cache[f].text)
      <4>1. IsText(f, cache[f].text)
        BY <1>1, <3>1 DEF Types, TextsTyped
      <4>2. f = g /\ ~IsAsked(g)
        BY <1>3, <3>1
      <4>3. cache[f].text.asks \in SUBSET (Files \ {f})
        BY <4>1, TextTypes
      <4>4. \A h \in Files \ {g} : Followed(h)' <=> Followed(h)
        BY <1>3, <4>2, FollowedElsewhere
      <4> QED
        BY <1>3, <4>1, <4>2, <4>3, <4>4
    <3>2. f \notin lost' \union since' => f \notin lost \union since
      BY <1>3
    <3> QED
      BY <1>2, <2>1, <3>1, <3>2, ShownStaysOf DEF FileInv
  <2> QED
    BY <2>2, <2>4, <2>7, <2>8 DEF FileInv
<1> QED
  BY <1>7, <1>8, <1>9 DEF Inv

\* Save and Elsewhere are such steps.
LEMMA DiskKeeps ==
    ASSUME Inv, NEW g \in Files, Save(g) \/ Elsewhere(g)
    PROVE  Inv'
<1>1. Types /\ ClientTyped /\ TextsTyped
  BY DEF Inv, Types
<1>2. ASSUME Stirs PROVE client'.place = client.place /\ ClientTyped'
  BY <1>1, <1>2 DEF Stirs, ClientTyped
<1>3. CASE Save(g)
  <2>1. PICK text : text = buffer[g]
    OBVIOUS
  <2>2. text \in AnyText \union {NoText} /\ (text # NoText => IsText(g, text))
    BY <1>1, <2>1 DEF TextsTyped
  <2>3. Put(g, text) /\ UNCHANGED <<buffer, server>>
    BY <1>3, <2>1 DEF Save
  <2>4. \E m \in Message : mail' = Append(mail, m) /\ m.kind = "save"
    BY <1>3, MessageKinds DEF Save, Send
  <2>5. client'.place = client.place /\ ClientTyped'
    BY <1>2, <1>3 DEF Save
  <2> QED
    BY <2>2, <2>3, <2>4, <2>5, DiskWritten
<1>4. CASE Elsewhere(g)
  <2>1. PICK text \in (Texts(g) \union {NoText}) \ {disk[g]} : Put(g, text)
    BY <1>4 DEF Elsewhere
  <2>2. text \in AnyText \union {NoText} /\ (text # NoText => IsText(g, text))
    BY <2>1 DEF AnyText, IsText
  <2>3. mail' = mail /\ UNCHANGED <<buffer, server>>
    BY <1>4 DEF Elsewhere
  <2>4. client'.place = client.place /\ ClientTyped'
    BY <1>2, <1>4 DEF Elsewhere
  <2> QED
    BY <2>1, <2>2, <2>3, <2>4, DiskWritten
<1> QED
  BY <1>3, <1>4

\* The watcher reports, and the client starts to watch.
LEMMA WatcherKeeps ==
    ASSUME Inv, Report \/ Watch
    PROVE  Inv'
<1>1. /\ Types /\ Names /\ Greeted /\ MailTyped /\ SeenTyped /\ TextsTyped
      /\ ClientTyped /\ mail \in Seq(Message) /\ seen \in Seq(Message)
  BY DEF Inv, Types, MailTyped, SeenTyped
<1>2. UNCHANGED <<disk, buffer, cache, index, shown, lost, since>>
  BY DEF Report, Watch, server
<1>3. TextsTyped' /\ Names'
  BY <1>1, <1>2 DEF TextsTyped, IsText, Names
<1>4. CASE Report
  <2>1. PICK m : m = Head(seen)
    OBVIOUS
  <2>2. /\ seen # <<>> /\ mail' = Append(mail, m) /\ seen' = Tail(seen)
        /\ UNCHANGED client
    BY <1>4, <2>1 DEF Report
  <2>3. /\ m \in Message /\ m.kind \in ReportKinds
        /\ seen' \in Seq(Message)
        /\ \A i \in DOMAIN seen' : i + 1 \in DOMAIN seen /\ seen'[i] = seen[i + 1]
    BY <1>1, <2>1, <2>2, TakenIs DEF SeenTyped
  <2>4. Types'
    <3>1. MailTyped'
      BY <1>1, <2>2, <2>3, SentTyped DEF ReportKinds
    <3>2. SeenTyped'
      BY <1>1, <2>3 DEF SeenTyped
    <3> QED
      BY <1>1, <1>2, <1>3, <2>2, <3>1, <3>2 DEF Types, ClientTyped
  <2>5. Greeted'
    <3>1. client.place = "watching"
      BY <1>1, <2>2 DEF Greeted
    <3>2. m.kind # "initialized"
      BY <2>3 DEF ReportKinds
    <3> QED
      BY <1>1, <1>2, <2>2, <2>3, <3>1, <3>2, GreetedSent
  <2>6. ASSUME NEW f \in Files
        PROVE  FileInv(f)'
    <3>1. FileInv(f)
      BY DEF Inv
    <3>2. DocumentsArrive(f)' /\ ComesInOrder(f)'
      <4>1. m.kind \notin DocumentKinds
        BY <2>3 DEF ReportKinds, DocumentKinds
      <4> QED
        BY <1>1, <1>2, <2>2, <2>3, <3>1, <4>1, SentKeepsDocuments DEF FileInv
    <3>3. ReportsArrive(f)'
      BY <1>1, <1>2, <2>1, <2>2, <3>1, HandedOver DEF FileInv
    <3>4. UnderWay(f) => UnderWay(f)'
      <4>1. \A kinds : ~NoneAbout(mail, kinds, f) => ~NoneAbout(mail', kinds, f)
        BY <1>1, <2>2, <2>3, AppendedLast, AppendedOther
      <4>2. ~NoneAbout(seen, ReportKinds, f) =>
               ~NoneAbout(seen', ReportKinds, f) \/ ~NoneAbout(mail', ReportKinds, f)
        BY <1>1, <2>1, <2>2, <2>3, TakenOther, AppendedLast
      <4> QED
        BY <1>2, <2>2, <4>1, <4>2 DEF UnderWay
    <3>5. IndexRight(f)'
      BY <1>2, <3>1, <3>4, IndexStays DEF FileInv
    <3>6. ShownRight(f)'
      BY <1>1, <1>2, <3>1, ShownStays DEF FileInv, TextsTyped
    <3> QED
      BY <3>2, <3>3, <3>5, <3>6 DEF FileInv
  <2> QED
    BY <1>3, <2>4, <2>5, <2>6 DEF Inv
<1>5. CASE Watch
  <2>1. /\ client.place = "scanned" /\ client' = [client EXCEPT !.place = "watching"]
        /\ UNCHANGED <<mail, seen>>
    BY <1>5 DEF Watch
  <2>2. client'.place = "watching" /\ ClientTyped'
    BY <1>1, <2>1 DEF ClientTyped
  <2>3. Types'
    BY <1>1, <1>2, <1>3, <2>1, <2>2 DEF Types, MailTyped, SeenTyped, IsText
  <2>4. Greeted'
    BY <1>1, <2>1, <2>2 DEF Greeted
  <2>5. ASSUME NEW f \in Files
        PROVE  FileInv(f)'
    <3>1. FileInv(f)
      BY DEF Inv
    <3>2. DocumentsArrive(f)' /\ ComesInOrder(f)' /\ ReportsArrive(f)'
      BY <1>2, <2>1, <3>1 DEF FileInv, DocumentsArrive, ComesInOrder,
         ReportsArrive, DocumentIs, BufferIs, Matches
    <3>3. UnderWay(f) => UnderWay(f)'
      BY <2>1 DEF UnderWay
    <3>4. IndexRight(f)'
      BY <1>2, <3>1, <3>3, IndexStays DEF FileInv
    <3>5. ShownRight(f)'
      BY <1>1, <1>2, <3>1, ShownStays DEF FileInv, TextsTyped
    <3> QED
      BY <3>2, <3>4, <3>5 DEF FileInv
  <2> QED
    BY <1>3, <2>3, <2>4, <2>5 DEF Inv
<1> QED
  BY <1>4, <1>5

----
\* The server takes a message about g.

\* What is known of the other files, and what is on its way to them, stays.
LEMMA MessageTaken ==
    ASSUME Inv, NEW g \in Files, NEW kind, kind # "initialized", Takes(kind, g),
           UNCHANGED editor, \A f \in Files \ {g} : cache'[f] = cache[f]
    PROVE  /\ MailTyped' /\ SeenTyped' /\ ClientTyped' /\ Greeted'
           /\ client.place # "opened"
           /\ \A f \in Files : ReportsArrive(f)'
           /\ \A f \in Files \ {g} : DocumentsArrive(f)' /\ ComesInOrder(f)'
           /\ \A f \in Files \ {g} : UnderWay(f) => UnderWay(f)'
<1>1. /\ mail # <<>> /\ mail' = Tail(mail) /\ Head(mail).kind = kind
      /\ Head(mail).file = g /\ UNCHANGED <<disk, buffer, seen, client>>
  BY DEF Takes, editor
<1>2. Types /\ Greeted /\ MailTyped /\ SeenTyped /\ ClientTyped /\ mail \in Seq(Message)
  BY DEF Inv, Types, MailTyped
<1>3. MailTyped' /\ SeenTyped' /\ ClientTyped' /\ Greeted' /\ client.place # "opened"
  <2>1. Greeted' /\ client'.place # "opened"
    BY <1>1, <1>2, GreetedTaken
  <2>2. MailTyped'
    BY <1>1, <1>2, TakenTyped
  <2> QED
    BY <1>1, <1>2, <2>1, <2>2 DEF SeenTyped, ClientTyped
<1>4. ASSUME NEW f \in Files
      PROVE  ReportsArrive(f)'
  BY <1>1, <1>2, TakenReport DEF Inv, FileInv
<1>5. ASSUME NEW f \in Files \ {g}
      PROVE  DocumentsArrive(f)' /\ ComesInOrder(f)'
  BY <1>1, <1>2, TakenKeepsDocuments DEF Inv, FileInv
<1>6. ASSUME NEW f \in Files \ {g}, UnderWay(f)
      PROVE  UnderWay(f)'
  <2>1. \A kinds : ~NoneAbout(mail, kinds, f) => ~NoneAbout(mail', kinds, f)
    BY <1>1, <1>2, TakenOther
  <2> QED
    BY <1>1, <1>3, <1>6, <2>1 DEF UnderWay
<1> QED
  BY <1>3, <1>4, <1>5, <1>6

\* What the index says of the other files stays right.
LEMMA OthersIndexed ==
    ASSUME Inv, NEW g \in Files, NEW f \in Files \ {g},
           disk'[f] = disk[f], cache'[f] = cache[f], f \notin lost' => f \notin lost,
           index'.exports[f] = index.exports[f],
           index'.imports[f] = index.imports[f],
           f \in index'.errors <=> f \in index.errors,
           UnderWay(f) => UnderWay(f)'
    PROVE  IndexRight(f)'
<1>1. IndexRight(f)
  BY DEF Inv, FileInv
<1> QED
  BY <1>1, IndexStays

\* The diagnostics a handler sends are those of the document and the index it
\* leaves.
LEMMA DiagnosedAfter ==
    ASSUME NEW f, disk' = disk
    PROVE  Diagnose(index, f, cache[f].text)' = Diagnose(index', f, cache'[f].text)
BY DEF Diagnose, Refused, Followed, InACycle

\* A file's diagnostics are sent: an index that changed leaves the others behind.
LEMMA Published ==
    ASSUME Inv, NEW g \in Files, Publishes(g), disk' = disk,
           \A f \in Files \ {g} : cache'[f] = cache[f] /\ (f \notin lost' => f \notin lost)
    PROVE  DOMAIN shown' = Files /\ \A f \in Files : ShownRight(f)'
<1>1. TextsTyped /\ DOMAIN shown = Files
  BY DEF Inv, Types
<1>2. \A f \in Files : shown'[f] = IF f = g THEN IF cache'[g] = NoText THEN {}
                                              ELSE Diagnose(index', g, cache'[g].text)
                                   ELSE shown[f]
  BY <1>1 DEF Publishes
<1>3. ShownRight(g)'
  BY <1>2, DiagnosedAfter DEF ShownRight
<1>4. ASSUME NEW f \in Files, f # g
      PROVE  ShownRight(f)'
  <2>1. ShownRight(f)
    BY DEF Inv, FileInv
  <2>2. f \notin since' => index' = index /\ f \notin since
    BY <1>4 DEF Publishes
  <2>3. cache[f] # NoText => IsText(f, cache[f].text)
    BY <1>1 DEF TextsTyped
  <2> QED
    BY <1>2, <1>4, <2>1, <2>2, <2>3, ShownStays
<1> QED
  BY <1>1, <1>3, <1>4 DEF Publishes

----
\* The server's handlers.

\* Indexing one text.
LEMMA OneText ==
    ASSUME NEW g, NEW text
    PROVE  /\ DOMAIN [f \in {g} |-> text] = {g}
           /\ [f \in {g} |-> text][g] = text
OBVIOUS

\* The texts of a file that is opened or changed.
LEMMA DocumentSet ==
    ASSUME Inv, NEW g \in Files, Opened(g) \/ Changed(g)
    PROVE  Inv'
<1>1. PICK text : text = Head(mail).text
  OBVIOUS
<1>2. /\ mail # <<>> /\ mail' = Tail(mail) /\ Head(mail).file = g
      /\ Head(mail).kind \in {"open", "change"}
      /\ UNCHANGED editor /\ UNCHANGED <<disk, buffer, seen, client>>
      /\ index' = Indexed([f \in {g} |-> text]) /\ Publishes(g) /\ lost' = lost \ {g}
  BY <1>1 DEF Opened, Changed, Takes, editor
<1>3. /\ Types /\ Names /\ TextsTyped /\ MailTyped /\ mail \in Seq(Message) /\ FileInv(g)
  BY DEF Inv, Types, MailTyped
<1>4. IsText(g, text) /\ text \in AnyText /\ text.gives \in BOOLEAN
  <2>1. IsText(g, text)
    BY <1>1, <1>2, <1>3, TakenTyped
  <2> QED
    BY <2>1, TextTypes
<1>5. PICK d : /\ cache' = [cache EXCEPT ![g] = d]
               /\ d \in Documents /\ d # NoText /\ d.text = text
               /\ d.text.whole => d.defines = text.gives
  <2>1. CASE Opened(g)
    <3> DEFINE d == [text |-> text, defines |-> text.gives]
    <3>1. cache' = [cache EXCEPT ![g] = d]
      BY <1>1, <2>1 DEF Opened
    <3>2. d \in Documents /\ d # NoText /\ d.text = text /\ d.defines = text.gives
      BY <1>4, DocumentTypes
    <3> QED
      BY <3>1, <3>2
  <2>2. CASE Changed(g)
    <3>1. cache[g] # NoText
      <4>1. 1 \in DOMAIN mail /\ About(mail, OpenKinds, g, 1)
        <5>1. Head(mail).kind = "change"
          BY <2>2 DEF Changed, Takes
        <5> QED
          BY <1>2, <1>3, <5>1, TakenIs DEF About, OpenKinds
      <4>2. \A k \in DOMAIN mail : ~(k < 1)
        BY <1>2, <1>3, TakenIs
      <4> QED
        BY <1>3, <4>1, <4>2 DEF FileInv, ComesInOrder
    <3>2. cache[g].defines \in BOOLEAN
      BY <1>3, <3>1, DocumentTypes DEF TextsTyped
    <3> DEFINE b == IF text.whole THEN text.gives ELSE cache[g].defines
               d == [text |-> text, defines |-> b]
    <3>3. cache' = [cache EXCEPT ![g] = d]
      BY <1>1, <1>3, <2>2, <3>1 DEF Changed, TextsTyped
    <3>4. b \in BOOLEAN
      BY <1>4, <3>2
    <3>5. d \in Documents /\ d # NoText
      BY <1>4, <3>4, DocumentTypes
    <3>6. d.text = text /\ (text.whole => d.defines = text.gives)
      OBVIOUS
    <3> HIDE DEF d
    <3> QED
      BY <3>3, <3>5, <3>6
  <2> QED
    BY <2>1, <2>2
<1>6. \A f \in Files : cache'[f] = IF f = g THEN d ELSE cache[f]
  BY <1>3, <1>5 DEF TextsTyped
<1>7. /\ MailTyped' /\ SeenTyped' /\ ClientTyped' /\ Greeted'
      /\ \A f \in Files : ReportsArrive(f)'
      /\ \A f \in Files \ {g} : DocumentsArrive(f)' /\ ComesInOrder(f)'
      /\ \A f \in Files \ {g} : UnderWay(f) => UnderWay(f)'
  <2>1. Takes(Head(mail).kind, g) /\ Head(mail).kind # "initialized"
    BY <1>2 DEF Takes
  <2> QED
    BY <1>2, <1>6, <2>1, MessageTaken
<1>8. /\ index' \in IndexType /\ Says(index', g, text)
      /\ \A f \in Files \ {g} : /\ index'.exports[f] = index.exports[f]
                                /\ index'.imports[f] = index.imports[f]
                                /\ f \in index'.errors <=> f \in index.errors
  <2>1. DOMAIN [f \in {g} |-> text] = {g} /\ [f \in {g} |-> text][g] = text
    BY OneText
  <2>2. PICK texts : texts = [f \in {g} |-> text]
    OBVIOUS
  <2>3. /\ DOMAIN texts \subseteq Files
        /\ \A f \in DOMAIN texts : IsText(f, texts[f])
    BY <1>4, <2>1, <2>2
  <2> QED
    BY <1>2, <1>3, <2>1, <2>2, <2>3, IndexedSays
<1>9. DOMAIN shown' = Files /\ \A f \in Files : ShownRight(f)'
  BY <1>2, <1>6, Published
<1>10. Types' /\ Names'
  <2>1. TextsTyped'
    <3>1. cache' \in [Files -> Documents \union {NoText}]
      BY <1>3, <1>5 DEF TextsTyped
    <3>2. \A f \in Files : cache'[f] # NoText => IsText(f, cache'[f].text)
      BY <1>3, <1>4, <1>5, <1>6 DEF TextsTyped
    <3> QED
      BY <1>2, <1>3, <3>1, <3>2 DEF TextsTyped, IsText
  <2>2. Names'
    BY <1>3, <1>5, <1>6 DEF Names
  <2> QED
    BY <1>7, <1>8, <1>9, <2>1, <2>2 DEF Types
<1>11. DocumentsArrive(g)' /\ ComesInOrder(g)'
  BY <1>1, <1>2, <1>3, <1>5, <1>6, TakenDocument DEF FileInv, DocumentKinds
<1>12. ASSUME NEW f \in Files
       PROVE  IndexRight(f)'
  <2>1. CASE f = g
    BY <1>5, <1>6, <1>8, <2>1 DEF IndexRight
  <2>2. CASE f # g
    BY <1>2, <1>6, <1>7, <1>8, <2>2, OthersIndexed
  <2> QED
    BY <2>1, <2>2
<1> QED
  BY <1>7, <1>9, <1>10, <1>11, <1>12 DEF Inv, FileInv

\* A file is saved in the editor: its document and the index stay.
LEMMA DocumentKept ==
    ASSUME Inv, NEW g \in Files, Saved(g)
    PROVE  Inv'
<1>1. /\ mail # <<>> /\ mail' = Tail(mail) /\ Head(mail).file = g
      /\ Head(mail).kind = "save" /\ Takes("save", g)
      /\ UNCHANGED editor /\ UNCHANGED <<disk, buffer, seen, client>>
      /\ UNCHANGED <<cache, index, lost>> /\ Publishes(g)
  BY DEF Saved, Takes, editor
<1>2. /\ Types /\ Names /\ TextsTyped /\ MailTyped /\ mail \in Seq(Message)
      /\ \A f \in Files : FileInv(f)
  BY DEF Inv, Types, MailTyped
<1>3. /\ MailTyped' /\ SeenTyped' /\ ClientTyped' /\ Greeted' /\ client.place # "opened"
      /\ \A f \in Files : ReportsArrive(f)'
      /\ \A f \in Files \ {g} : DocumentsArrive(f)' /\ ComesInOrder(f)'
      /\ \A f \in Files \ {g} : UnderWay(f) => UnderWay(f)'
  BY <1>1, MessageTaken
<1>4. DOMAIN shown' = Files /\ \A f \in Files : ShownRight(f)'
  BY <1>1, Published
<1>5. Types' /\ Names'
  BY <1>1, <1>2, <1>3, <1>4 DEF Types, TextsTyped, IsText, Names
<1>6. DocumentsArrive(g)' /\ ComesInOrder(g)'
  BY <1>1, <1>2, TakenKeepsDocuments DEF FileInv, DocumentKinds
<1>7. UnderWay(g) => UnderWay(g)'
  <2>1. \A kinds : Head(mail).kind \notin kinds =>
           (~NoneAbout(mail, kinds, g) => ~NoneAbout(mail', kinds, g))
    BY <1>1, <1>2, TakenOther
  <2> QED
    BY <1>1, <1>3, <2>1 DEF UnderWay, DocumentKinds, ReportKinds
<1>8. ASSUME NEW f \in Files
      PROVE  IndexRight(f)'
  BY <1>1, <1>2, <1>3, <1>7, IndexStays DEF FileInv
<1> QED
  BY <1>3, <1>4, <1>5, <1>6, <1>8 DEF Inv, FileInv

\* It is closed: what its last text left in the index is right only if it is saved.
LEMMA DocumentGone ==
    ASSUME Inv, NEW g \in Files, Closed(g)
    PROVE  Inv'
<1>1. /\ mail # <<>> /\ mail' = Tail(mail) /\ Head(mail).file = g
      /\ Head(mail).kind = "close" /\ Takes("close", g)
      /\ UNCHANGED editor /\ UNCHANGED <<disk, buffer, seen, client, index>>
      /\ cache' = [cache EXCEPT ![g] = NoText] /\ Publishes(g)
      /\ lost' = IF cache[g].text # disk[g] THEN lost \union {g} ELSE lost
  BY DEF Closed, Takes, editor
<1>2. /\ Types /\ Names /\ TextsTyped /\ MailTyped /\ mail \in Seq(Message)
      /\ \A f \in Files : FileInv(f)
  BY DEF Inv, Types, MailTyped
<1>3. \A f \in Files : cache'[f] = IF f = g THEN NoText ELSE cache[f]
  BY <1>1, <1>2 DEF TextsTyped
<1>4. /\ MailTyped' /\ SeenTyped' /\ ClientTyped' /\ Greeted' /\ client.place # "opened"
      /\ \A f \in Files : ReportsArrive(f)'
      /\ \A f \in Files \ {g} : DocumentsArrive(f)' /\ ComesInOrder(f)'
      /\ \A f \in Files \ {g} : UnderWay(f) => UnderWay(f)'
  BY <1>1, <1>3, MessageTaken
<1>5. DOMAIN shown' = Files /\ \A f \in Files : ShownRight(f)'
  BY <1>1, <1>3, Published
<1>6. Types' /\ Names'
  <2>1. cache' \in [Files -> Documents \union {NoText}]
    BY <1>1, <1>2 DEF TextsTyped
  <2>2. TextsTyped'
    BY <1>1, <1>2, <1>3, <2>1 DEF TextsTyped, IsText
  <2> QED
    BY <1>1, <1>2, <1>3, <1>4, <1>5, <2>2 DEF Types, Names
<1>7. DocumentsArrive(g)' /\ ComesInOrder(g)'
  BY <1>1, <1>2, <1>3, TakenDocument DEF FileInv, DocumentKinds
<1>8. cache[g] # NoText
  <2>1. 1 \in DOMAIN mail /\ About(mail, OpenKinds, g, 1)
    BY <1>1, <1>2, TakenIs DEF About, OpenKinds
  <2>2. \A k \in DOMAIN mail : ~(k < 1)
    BY <1>1, <1>2, TakenIs
  <2> QED
    BY <1>2, <2>1, <2>2 DEF FileInv, ComesInOrder
<1>9. ASSUME NEW f \in Files
      PROVE  IndexRight(f)'
  <2>1. CASE f = g
    <3>1. g \notin lost' => Says(index, g, disk[g])
      BY <1>1, <1>2, <1>8 DEF FileInv, IndexRight
    <3>2. \A text : Says(index', g, text) <=> Says(index, g, text)
      BY <1>1, SaysAlike
    <3> QED
      BY <1>1, <1>3, <2>1, <3>1, <3>2 DEF IndexRight
  <2>2. CASE f # g
    BY <1>1, <1>3, <1>4, <2>2, OthersIndexed
  <2> QED
    BY <2>1, <2>2
<1> QED
  BY <1>4, <1>5, <1>6, <1>7, <1>9 DEF Inv, FileInv

\* The server is told that g is there, or gone: if the disk says otherwise by
\* now, another report is on its way.
LEMMA OutdatedReport ==
    ASSUME mail \in Seq(Message), mail # <<>>, mail' = Tail(mail), seen' = seen,
           NEW g, Head(mail).file = g, Head(mail).kind \in ReportKinds,
           ReportsArrive(g), ~Matches(g, Head(mail))
    PROVE  UnderWay(g)'
<1>1. ~NoneAbout(mail, ReportKinds, g)
  BY TakenIs DEF NoneAbout, About
<1>2. CASE \E m \in Message : LastIs(seen, ReportKinds, g, m)
  BY <1>2, LastOrNone DEF UnderWay
<1>3. CASE \E m \in Message : LastIs(mail, ReportKinds, g, m) /\ Matches(g, m)
  <2>1. PICK m \in Message : LastIs(mail, ReportKinds, g, m) /\ Matches(g, m)
    BY <1>3
  <2>2. m # Head(mail)
    BY <2>1
  <2>3. \A x : LastIs(mail, ReportKinds, g, x) =>
           LastIs(mail', ReportKinds, g, x) \/ x = Head(mail)
    BY TakenOther
  <2>4. LastIs(mail', ReportKinds, g, m)
    BY <2>1, <2>2, <2>3
  <2> QED
    BY <2>4, LastOrNone DEF UnderWay
<1> QED
  BY <1>1, <1>2, <1>3 DEF ReportsArrive

\* What a report leaves as it was.
LEMMA Reported ==
    ASSUME Inv, NEW g \in Files, NEW kind \in ReportKinds, Takes(kind, g),
           UNCHANGED <<editor, cache, shown>>, index' \in IndexType,
           since' = IF index' = index THEN since ELSE since \union (Files \ {g}),
           \A f \in Files \ {g} : /\ index'.exports[f] = index.exports[f]
                                  /\ index'.imports[f] = index.imports[f]
                                  /\ f \in index'.errors <=> f \in index.errors
                                  /\ f \notin lost' => f \notin lost,
           IndexRight(g)', ShownRight(g)'
    PROVE  Inv'
<1>1. /\ mail # <<>> /\ mail' = Tail(mail) /\ Head(mail).file = g
      /\ Head(mail).kind = kind /\ kind # "initialized" /\ kind \notin DocumentKinds
      /\ UNCHANGED editor /\ UNCHANGED <<disk, buffer, seen, client, cache, shown>>
  BY DEF Takes, editor, ReportKinds, DocumentKinds
<1>2. /\ Types /\ Names /\ TextsTyped /\ mail \in Seq(Message)
      /\ \A f \in Files : FileInv(f)
  BY DEF Inv, Types, MailTyped
<1>3. /\ MailTyped' /\ SeenTyped' /\ ClientTyped' /\ Greeted'
      /\ \A f \in Files : ReportsArrive(f)'
      /\ \A f \in Files \ {g} : DocumentsArrive(f)' /\ ComesInOrder(f)'
      /\ \A f \in Files \ {g} : UnderWay(f) => UnderWay(f)'
  BY <1>1, MessageTaken
<1>4. DocumentsArrive(g)' /\ ComesInOrder(g)'
  BY <1>1, <1>2, TakenKeepsDocuments DEF FileInv
<1>5. Types' /\ Names'
  BY <1>1, <1>2, <1>3 DEF Types, TextsTyped, IsText, Names
<1>6. ASSUME NEW f \in Files, f # g
      PROVE  IndexRight(f)' /\ ShownRight(f)'
  <2>1. IndexRight(f)'
    BY <1>1, <1>3, <1>6, OthersIndexed
  <2>2. f \notin since' => index' = index /\ f \notin since
    BY <1>6
  <2>3. cache[f] # NoText => IsText(f, cache[f].text)
    BY <1>2 DEF TextsTyped
  <2>4. ShownRight(f)'
    BY <1>1, <1>2, <1>6, <2>2, <2>3, ShownStays DEF FileInv
  <2> QED
    BY <2>1, <2>4
<1> QED
  BY <1>3, <1>4, <1>5, <1>6 DEF Inv, FileInv

\* A file that is there is read unless it is open.
LEMMA FileSeen ==
    ASSUME Inv, NEW g \in Files, FileThere(g)
    PROVE  Inv'
<1>1. /\ mail # <<>> /\ mail' = Tail(mail) /\ Head(mail).file = g
      /\ Head(mail).kind = "there" /\ Takes("there", g)
      /\ UNCHANGED <<editor, cache, shown>>
      /\ UNCHANGED <<disk, buffer, seen, client, cache, shown>>
      /\ lost' = IF IsRead(g) THEN lost \ {g} ELSE lost
      /\ since' = IF index' = index THEN since ELSE since \union (Files \ {g})
  BY DEF FileThere, Takes, editor
<1>2. /\ Types /\ TextsTyped /\ index \in IndexType /\ mail \in Seq(Message) /\ FileInv(g)
  BY DEF Inv, Types, MailTyped
<1>3. PICK reading : /\ reading = IF IsRead(g) THEN Indexed([f \in {g} |-> disk[g]])
                                  ELSE index
                     /\ index' = IF disk[g] = NoText THEN index
                                 ELSE [reading EXCEPT !.listed = @ \union {g}]
  BY DEF FileThere
<1>4. /\ reading \in IndexType
      /\ IsRead(g) => Says(reading, g, disk[g])
      /\ \A f \in Files \ {g} : /\ reading.exports[f] = index.exports[f]
                                /\ reading.imports[f] = index.imports[f]
                                /\ f \in reading.errors <=> f \in index.errors
  <2>1. CASE IsRead(g)
    <3>1. PICK texts : texts = [f \in {g} |-> disk[g]]
      OBVIOUS
    <3>2. /\ DOMAIN texts \subseteq Files /\ DOMAIN texts = {g} /\ texts[g] = disk[g]
          /\ \A f \in DOMAIN texts : IsText(f, texts[f])
      BY <1>2, <2>1, <3>1 DEF TextsTyped, IsRead
    <3>3. reading = Indexed(texts)
      BY <1>3, <2>1, <3>1
    <3> QED
      BY <1>2, <3>2, <3>3, IndexedSays
  <2>2. CASE ~IsRead(g)
    BY <1>2, <1>3, <2>2
  <2> QED
    BY <2>1, <2>2
<1>5. /\ index' \in IndexType
      /\ disk[g] = NoText => index' = index
      /\ disk[g] # NoText => /\ index'.exports = reading.exports
                             /\ index'.imports = reading.imports
                             /\ index'.errors = reading.errors
  BY <1>2, <1>3, <1>4 DEF IndexType
<1>6. \A f \in Files \ {g} : /\ index'.exports[f] = index.exports[f]
                             /\ index'.imports[f] = index.imports[f]
                             /\ f \in index'.errors <=> f \in index.errors
                             /\ f \notin lost' => f \notin lost
  BY <1>1, <1>4, <1>5
<1>7. ~IsRead(g) => /\ index'.exports = index.exports
                    /\ index'.imports = index.imports
                    /\ index'.errors = index.errors
                    /\ lost' = lost
  BY <1>1, <1>3, <1>5
<1>8. IndexRight(g)'
  <2>1. CASE IsRead(g)
    <3>1. Says(reading, g, disk[g]) /\ disk[g] # NoText /\ cache[g] = NoText
      BY <1>4, <2>1 DEF IsRead
    <3>2. \A text : Says(index', g, text) <=> Says(reading, g, text)
      BY <1>5, <3>1, SaysAlike
    <3> QED
      BY <1>1, <3>1, <3>2 DEF IndexRight
  <2>2. CASE cache[g] # NoText
    <3>1. ~IsRead(g)
      BY <2>2 DEF IsRead
    <3> QED
      BY <1>1, <1>2, <1>7, <2>2, <3>1, IndexStays DEF FileInv
  <2>3. CASE disk[g] = NoText
    <3>1. ~Matches(g, Head(mail))
      BY <1>1, <2>3 DEF Matches
    <3>2. UnderWay(g)'
      BY <1>1, <1>2, <3>1, OutdatedReport DEF FileInv, ReportKinds
    <3>3. ~IsRead(g)
      BY <2>3 DEF IsRead
    <3> QED
      BY <1>1, <1>2, <1>7, <3>2, <3>3, IndexStays DEF FileInv
  <2> QED
    BY <2>1, <2>2, <2>3 DEF IsRead
<1>9. ShownRight(g)'
  <2>1. CASE cache[g] = NoText
    BY <1>1, <1>2, <2>1 DEF FileInv, ShownRight
  <2>2. CASE cache[g] # NoText
    <3>1. ~IsRead(g) /\ IsText(g, cache[g].text)
      BY <1>2, <2>2 DEF IsRead, TextsTyped
    <3>2. g \notin since' => g \notin since
      BY <1>1
    <3> QED
      BY <1>1, <1>2, <1>7, <3>1, <3>2, ShownStays DEF FileInv
  <2> QED
    BY <2>1, <2>2
<1> QED
  BY <1>1, <1>5, <1>6, <1>8, <1>9, Reported DEF ReportKinds

\* A file that is gone leaves the index.
LEMMA FileUnseen ==
    ASSUME Inv, NEW g \in Files, FileGone(g)
    PROVE  Inv'
<1>1. /\ mail # <<>> /\ mail' = Tail(mail) /\ Head(mail).file = g
      /\ Head(mail).kind = "gone" /\ Takes("gone", g)
      /\ UNCHANGED <<editor, cache, shown>>
      /\ UNCHANGED <<disk, buffer, seen, client, cache, shown>>
      /\ index' = Unindexed(g)
      /\ lost' = IF cache[g] = NoText THEN lost \ {g} ELSE lost \union {g}
      /\ since' = IF index' = index THEN since ELSE since \union (Files \ {g})
  BY DEF FileGone, Takes, editor
<1>2. Types /\ mail \in Seq(Message) /\ FileInv(g)
  BY DEF Inv, Types, MailTyped
<1>3. /\ index' \in IndexType /\ Says(index', g, NoText)
      /\ \A f \in Files \ {g} : /\ index'.exports[f] = index.exports[f]
                                /\ index'.imports[f] = index.imports[f]
                                /\ f \in index'.errors <=> f \in index.errors
                                /\ f \notin lost' => f \notin lost
  BY <1>1, <1>2, UnindexedSays
<1>4. IndexRight(g)'
  <2>1. CASE disk[g] = NoText
    BY <1>1, <1>3, <2>1 DEF IndexRight
  <2>2. CASE disk[g] # NoText
    <3>1. ~Matches(g, Head(mail))
      BY <1>1, <2>2 DEF Matches
    <3>2. UnderWay(g)'
      BY <1>1, <1>2, <3>1, OutdatedReport DEF FileInv, ReportKinds
    <3> QED
      BY <1>1, <3>2 DEF IndexRight
  <2> QED
    BY <2>1, <2>2
<1>5. ShownRight(g)'
  BY <1>1, <1>2 DEF FileInv, ShownRight
<1> QED
  BY <1>1, <1>3, <1>4, <1>5, Reported DEF ReportKinds

\* The first scan of the folder.
LEMMA FolderScanned ==
    ASSUME Inv, Scanned
    PROVE  Inv'
<1>1. /\ mail # <<>> /\ mail' = Tail(mail) /\ Head(mail).kind = "initialized"
      /\ client' = [client EXCEPT !.place = "scanned"]
      /\ since' = since \union Files
      /\ UNCHANGED <<disk, buffer, seen, cache, shown, lost>>
  BY DEF Scanned
<1>2. /\ Types /\ Names /\ Greeted /\ TextsTyped /\ MailTyped /\ SeenTyped /\ ClientTyped
      /\ mail \in Seq(Message) /\ \A f \in Files : FileInv(f)
  BY DEF Inv, Types, MailTyped
<1>3. PICK read : read = {f \in index.listed : IsRead(f)}
  OBVIOUS
<1>4. PICK texts : texts = [f \in read |-> disk[f]]
  OBVIOUS
<1>5. index' = Indexed(texts)
  BY <1>3, <1>4 DEF Scanned
<1>6. client.place = "opened" /\ \A f \in Files : cache[f] = NoText
  <2>1. Head(mail) = mail[1] /\ 1 \in DOMAIN mail
    BY <1>1, <1>2, TakenIs
  <2> QED
    BY <1>1, <1>2, <2>1 DEF Greeted
<1>7. /\ index' \in IndexType
      /\ \A f \in read : Says(index', f, disk[f])
      /\ \A f \in Files \ read : /\ index'.exports[f] = index.exports[f]
                                 /\ index'.imports[f] = index.imports[f]
                                 /\ f \in index'.errors <=> f \in index.errors
  <2>1. read \subseteq Files /\ DOMAIN texts = read /\ \A f \in read : texts[f] = disk[f]
    BY <1>2, <1>3, <1>4 DEF Types, IndexType
  <2>2. \A f \in DOMAIN texts : IsText(f, texts[f])
    BY <1>2, <1>3, <2>1 DEF IsRead, TextsTyped
  <2> QED
    BY <1>2, <1>5, <2>1, <2>2, IndexedSays
<1>8. ClientTyped' /\ client'.place = "scanned"
  BY <1>1, <1>2 DEF ClientTyped
<1>9. Types' /\ Names' /\ Greeted'
  <2>1. MailTyped'
    BY <1>1, <1>2, TakenTyped
  <2>2. Greeted'
    BY <1>1, <1>2, <1>6, <1>8, GreetedTaken
  <2> QED
    BY <1>1, <1>2, <1>7, <1>8, <2>1, <2>2 DEF Types, TextsTyped, IsText, SeenTyped, Names
<1>10. ASSUME NEW f \in Files
       PROVE  FileInv(f)'
  <2>1. FileInv(f)
    BY <1>2
  <2>2. DocumentsArrive(f)' /\ ComesInOrder(f)'
    BY <1>1, <1>2, <2>1, TakenKeepsDocuments DEF FileInv, DocumentKinds
  <2>3. ReportsArrive(f)'
    BY <1>1, <1>2, <2>1, TakenReport DEF FileInv
  <2>4. IndexRight(f)'
    <3>1. CASE f \in read
      BY <1>1, <1>6, <1>7, <3>1 DEF IndexRight
    <3>2. CASE f \notin read
      <4>1. disk[f] = NoText => Says(index', f, disk[f])
        BY <1>2, <1>6, <1>7, <3>2 DEF Greeted, Says
      <4>2. \A text : Says(index', f, text) <=> Says(index, f, text)
        BY <1>7, <3>2, SaysAlike
      <4>3. ASSUME disk[f] # NoText, UnderWay(f)
            PROVE  UnderWay(f)'
        <5>1. f \notin index.listed
          BY <1>3, <1>6, <3>2, <4>3 DEF IsRead
        <5>2. NoneAbout(mail, ReportKinds, f) /\ seen = <<>>
          BY <1>2, <1>6 DEF Greeted
        <5>3. NoneAbout(seen, ReportKinds, f)
          BY <5>2 DEF NoneAbout
        <5>4. ~NoneAbout(mail, DocumentKinds, f)
          BY <4>3, <5>1, <5>2, <5>3 DEF UnderWay
        <5>5. ~NoneAbout(mail', DocumentKinds, f)
          BY <1>1, <1>2, <5>4, TakenOther DEF DocumentKinds
        <5> QED
          BY <5>5 DEF UnderWay
      <4> QED
        BY <1>1, <1>6, <2>1, <4>1, <4>2, <4>3 DEF FileInv, IndexRight
    <3> QED
      BY <3>1, <3>2
  <2>5. ShownRight(f)'
    BY <1>1, <1>6, <2>1 DEF FileInv, ShownRight
  <2> QED
    BY <2>2, <2>3, <2>4, <2>5 DEF FileInv
<1> QED
  BY <1>9, <1>10 DEF Inv

----
\* The invariant holds of every behaviour.

\* It holds when the server starts.
LEMMA InitInv == Init => Inv
<1> SUFFICES ASSUME Init PROVE Inv
  OBVIOUS
<1>1. /\ \A f \in Files : /\ disk[f] \in Texts(f) \union {NoText}
                          /\ buffer[f] = NoText /\ cache[f] = NoText
                          /\ index.exports[f] = Nothing /\ index.imports[f] = {}
                          /\ shown[f] = {}
      /\ index.errors = {} /\ index.listed = {f \in Files : disk[f] # NoText}
      /\ mail = <<Greeting>> /\ seen = <<>> /\ client = [place |-> "opened", changes |-> 0]
  BY DEF Init, Greeting
<1>2. /\ mail \in Seq(Message) /\ mail # <<>>
      /\ DOMAIN mail = {1} /\ mail[1] = Greeting /\ Head(mail) = Greeting
  <2>1. Greeting \in Message
    BY DEF Message
  <2>2. PICK m : m = Greeting
    OBVIOUS
  <2>3. /\ <<m>> \in Seq(Message) /\ <<m>> # <<>> /\ DOMAIN <<m>> = {1}
        /\ <<m>>[1] = m /\ Head(<<m>>) = m
    BY <2>1, <2>2
  <2> QED
    BY <1>1, <2>2, <2>3
<1>3. Greeting.kind = "initialized"
  BY DEF Greeting
<1>4. \A f \in Files : \A kinds : "initialized" \notin kinds => NoneAbout(mail, kinds, f)
  BY <1>2, <1>3 DEF NoneAbout, About
<1>5. Types
  <2>1. TextsTyped
    <3>1. /\ disk \in [Files -> AnyText \union {NoText}]
          /\ buffer \in [Files -> AnyText \union {NoText}]
          /\ cache \in [Files -> Documents \union {NoText}]
      BY DEF Init, AnyText
    <3> QED
      BY <1>1, <3>1 DEF TextsTyped, IsText
  <2>2. MailTyped /\ SeenTyped
    <3>1. <<>> \in Seq(Message) /\ DOMAIN <<>> = {}
      OBVIOUS
    <3> QED
      BY <1>1, <1>2, <1>3, <3>1 DEF MailTyped, SeenTyped
  <2>3. ClientTyped
    BY <1>1 DEF ClientTyped
  <2>4. index \in IndexType
    BY DEF Init, IndexType, Nothing
  <2>5. DOMAIN shown = Files
    BY DEF Init
  <2> QED
    BY <2>1, <2>2, <2>3, <2>4, <2>5 DEF Types
<1>6. Names
  BY <1>1 DEF Names
<1>7. Greeted
  BY <1>1, <1>2, <1>3, <1>4 DEF Greeted, ReportKinds
<1>8. ASSUME NEW f \in Files
      PROVE  FileInv(f)
  <2>1. DocumentsArrive(f)
    BY <1>1, <1>4 DEF DocumentsArrive, DocumentIs, DocumentKinds
  <2>2. ComesInOrder(f)
    BY <1>2, <1>3 DEF ComesInOrder, About, OpenKinds
  <2>3. ReportsArrive(f)
    <3>1. NoneAbout(seen, ReportKinds, f)
      BY <1>1 DEF NoneAbout
    <3> QED
      BY <1>4, <3>1 DEF ReportsArrive, ReportKinds
  <2>4. IndexRight(f)
    BY <1>1 DEF IndexRight, UnderWay, Says
  <2>5. ShownRight(f)
    BY <1>1 DEF ShownRight
  <2> QED
    BY <2>1, <2>2, <2>3, <2>4, <2>5 DEF FileInv
<1> QED
  BY <1>5, <1>6, <1>7, <1>8 DEF Inv

\* Every step keeps it.
LEMMA NextInv == Inv /\ [Next]_vars => Inv'
<1> SUFFICES ASSUME Inv, [Next]_vars PROVE Inv'
  OBVIOUS
<1>1. ASSUME NEW f \in Files,
             Open(f) \/ Edit(f) \/ Save(f) \/ Close(f) \/ Elsewhere(f)
      PROVE  Inv'
  BY <1>1, EditorKeeps, DiskKeeps
<1>2. CASE Report \/ Watch
  BY <1>2, WatcherKeeps
<1>3. ASSUME NEW f \in Files,
             \/ Opened(f) \/ Changed(f) \/ Saved(f) \/ Closed(f)
             \/ FileThere(f) \/ FileGone(f)
      PROVE  Inv'
  BY <1>3, DocumentSet, DocumentKept, DocumentGone, FileSeen, FileUnseen
<1>4. CASE Scanned
  BY <1>4, FolderScanned
<1>5. CASE UNCHANGED vars
  <2>1. UNCHANGED <<disk, buffer, mail, seen, client, cache, index, shown, lost, since>>
    BY <1>5 DEF vars
  <2>2. /\ Types /\ Names /\ Greeted /\ TextsTyped /\ \A f \in Files : FileInv(f)
    BY DEF Inv, Types
  <2>3. Types' /\ Names' /\ Greeted'
    BY <2>1, <2>2 DEF Types, TextsTyped, IsText, MailTyped, SeenTyped, ClientTyped,
       Names, Greeted
  <2>4. ASSUME NEW f \in Files
        PROVE  FileInv(f)'
    <3>1. FileInv(f)
      BY <2>2
    <3>2. DocumentsArrive(f)' /\ ComesInOrder(f)' /\ ReportsArrive(f)'
      BY <2>1, <3>1 DEF FileInv, DocumentsArrive, ComesInOrder, ReportsArrive,
         DocumentIs, BufferIs, Matches
    <3>3. IndexRight(f)'
      <4>1. UnderWay(f) => UnderWay(f)'
        BY <2>1 DEF UnderWay
      <4> QED
        BY <2>1, <3>1, <4>1, IndexStays DEF FileInv
    <3>4. ShownRight(f)'
      BY <2>1, <2>2, <3>1, ShownStays DEF FileInv, TextsTyped
    <3> QED
      BY <3>2, <3>3, <3>4 DEF FileInv
  <2> QED
    BY <2>3, <2>4 DEF Inv
<1> QED
  BY <1>1, <1>2, <1>3, <1>4, <1>5 DEF Next

\* It holds throughout.
THEOREM InvHolds == Spec => []Inv
BY InitInv, NextInv, PTL DEF Spec

----
\* At rest nothing is on its way: the documents are the editor's, and the index
\* says what they say, or what is on disk.

\* What it says at rest.
LEMMA RestIsRight == Inv /\ AtRest =>
    \A f \in Files : /\ DocumentIs(f) /\ ShownRight(f)
                     /\ f \notin lost => Says(index, f, TextOf(f))
<1> SUFFICES ASSUME Inv, AtRest, NEW f \in Files
             PROVE  /\ DocumentIs(f) /\ ShownRight(f)
                    /\ f \notin lost => Says(index, f, TextOf(f))
  OBVIOUS
<1>1. FileInv(f)
  BY DEF Inv
<1>2. \A kinds : NoneAbout(mail, kinds, f) /\ NoneAbout(seen, kinds, f)
  BY DEF AtRest, NoneAbout
<1>3. ~UnderWay(f)
  BY <1>2 DEF UnderWay, AtRest
<1>4. DocumentIs(f)
  BY <1>1, <1>2, LastOrNone DEF FileInv, DocumentsArrive
<1>5. f \notin lost => Says(index, f, TextOf(f))
  BY <1>1, <1>3, <1>4 DEF FileInv, IndexRight, DocumentIs, TextOf
<1> QED
  BY <1>1, <1>4, <1>5 DEF FileInv

\* Once every message and report is handled, the server's documents are the
\* editor's and its index says of every file what its text says.
THEOREM IndexFollowsTextHolds == Spec => []IndexFollowsText
<1>1. Inv => IndexFollowsText
  <2> SUFFICES ASSUME Inv, AtRest, NEW f \in Files
               PROVE  /\ (cache[f] = NoText) <=> (buffer[f] = NoText)
                      /\ cache[f] # NoText =>
                            /\ cache[f].text = buffer[f]
                            /\ buffer[f].whole => cache[f].defines = buffer[f].gives
                      /\ f \notin lost => Says(index, f, TextOf(f))
    BY DEF IndexFollowsText, Says
  <2>1. DocumentIs(f) /\ (f \notin lost => Says(index, f, TextOf(f))) /\ Names
    BY RestIsRight DEF Inv
  <2> QED
    BY <2>1 DEF DocumentIs, Names
<1> QED
  BY <1>1, InvHolds, PTL

\* Once every message and report is handled, an open file shows the diagnostics
\* of the text in the editor, and a closed one none.
THEOREM ShownIsCurrentHolds == Spec => []ShownIsCurrent
<1>1. Inv => ShownIsCurrent
  BY RestIsRight DEF ShownIsCurrent, DocumentIs, ShownRight
<1> QED
  BY <1>1, InvHolds, PTL
=============================================================================
