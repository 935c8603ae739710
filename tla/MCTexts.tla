---------------------------------- MODULE MCTexts ----------------------------------
(***************************************************************************)
(* Small instances of what is computed from a text: the provision trees of *)
(* the five countries' parsers, the two readings of an HTML and of a DOCX  *)
(* original, the block chains of a derivation and the chunks of a tree.    *)
(* A behaviour is one case.                                                *)
(***************************************************************************)
EXTENDS Integers, Sequences, FiniteSets, SequencesExt, TLC

CONSTANTS Cases

VARIABLES case,
  form, front, p, lines, real, returned, inTOC, input, conv, val, pc, package, builder, doc, rows,
  at, chunks

suite == <<case,
  form, front, p, lines, real, returned, inTOC, input, conv, val, pc, package, builder, doc, rows,
  at, chunks>>

Off == "off"  \* the variables of the components a case leaves alone

-------------------------------------------------------------------------------
(* Lines of an Act, of its sections and of a policy document. *)
MyL(shape, n, suffix) == [shape |-> shape, n |-> n, suffix |-> suffix, tok |-> "", rest |-> "text", shaped |-> TRUE, real |-> TRUE]
MyPara(tok) == [MyL("para", 0, "") EXCEPT !.tok = tok]
MyWith(l, rest) == [l EXCEPT !.rest = rest]
MyFake(l) == [l EXCEPT !.real = FALSE]
MySentence(l) == [l EXCEPT !.shaped = FALSE, !.real = FALSE]
MyText == MyL("text", 0, "")

MyActLines == {MyText, MyL("part", 1, ""), MyL("schedule", 1, ""), MyL("number", 1, "A"), MyL("enacting", 0, "")}
            \cup {MyL("number", n, "") : n \in 1..3} \cup {MyFake(MyL("number", n, "")) : n \in 1..4}
MyParaLines == {MyPara("h"), MyPara("i"), MyPara("ii"), MyL("subsec", 1, ""), MyL("subsec", 2, ""), MyL("chapter", 1, ""), MyText}
             \cup {MyWith(MyL("number", n, ""), "subsec") : n \in 1..2}
MyPDLines == {MyL("part", 1, ""), MyText, MyL("noise", 0, ""), MyL("toc", 0, ""), MyL("marker", 0, ""), MyL("appendix", 1, ""), MyL("appendix", 1, "A"), MySentence(MyL("appendix", 1, ""))}
           \cup {MyL(sh, n, "") : sh \in {"pdchapter", "sg"}, n \in 1..2} \cup {MyL("sg", 1, "A"), MyL("pdchapter", 1, "A"), MyL("subpara", 2, "")}
           \cup {MySentence(MyL("pdchapter", n, "")) : n \in 1..2}
MyLetterLines == {MyText, MyL("noise", 0, ""), MyL("appendix", 1, ""), MyL("bareappendix", 0, ""), MyWith(MyL("bareappendix", 0, ""), "")}
               \cup {MyL("number", n, "") : n \in 2..3} \cup {MyWith(MyL("number", 3, ""), "")} \cup {MyFake(MyL("number", n, "")) : n \in 2..4}
MyNear == {-2, -1, 0, 1, 2}

MyAct == INSTANCE MalaysiaParse WITH
  Forms <- {"act"}, Pieces <- MyActLines, Merged <- TRUE, Skips <- MyNear, Enacting <- TRUE,
  MaxLines <- 4
MyParagraphs == INSTANCE MalaysiaParse WITH
  Forms <- {"act"}, Pieces <- MyParaLines, Merged <- FALSE, Skips <- MyNear, Enacting <- FALSE,
  MaxLines <- 5
MyPolicy == INSTANCE MalaysiaParse WITH
  Forms <- {"pd"}, Pieces <- MyPDLines, Merged <- FALSE, Skips <- MyNear, Enacting <- TRUE,
  MaxLines <- 4
MyLetterText == INSTANCE MalaysiaParse WITH
  Forms <- {"letter"}, Pieces <- MyLetterLines, Merged <- FALSE, Skips <- MyNear, Enacting <- FALSE,
  MaxLines <- 4

RestMalaysia == UNCHANGED <<case, inTOC, input, conv, val, pc, package, builder, doc, rows, at, chunks>>
IdleMalaysia ==
  /\ inTOC = Off /\ input = Off /\ conv = Off /\ val = Off /\ pc = Off /\ package = Off
  /\ builder = Off /\ doc = Off /\ rows = Off /\ at = Off /\ chunks = Off

-------------------------------------------------------------------------------
(* Lines of an Act, its arrangement and sections, and of a notice. *)
SgL(shape, n, suffix) == [shape |-> shape, n |-> n, suffix |-> suffix, tok |-> "", rest |-> "text", dash |-> FALSE, real |-> TRUE]
SgPara(tok) == [SgL("para", 0, "") EXCEPT !.tok = tok]
SgWith(l, rest) == [l EXCEPT !.rest = rest]
SgDash(l) == [l EXCEPT !.dash = TRUE, !.rest = "subsec"]
SgFake(l) == [l EXCEPT !.real = FALSE]
SgText == SgL("text", 0, "")

SgNumbers == {SgL("number", n, "") : n \in 1..3} \cup {SgFake(SgL("number", n, "")) : n \in 1..4} \cup {SgL("number", 1, "A")}
SgActLines == SgNumbers \cup {SgText, SgL("schedule", 1, ""), SgL("enacting", 0, ""), SgL("noise", 0, ""), SgL("part", 1, "")}
SgActInner == {SgPara("h"), SgPara("i"), SgPara("ii"), SgL("subsec", 1, ""), SgL("subsec", 2, ""), SgL("division", 1, ""), SgWith(SgL("part", 1, ""), "")}
            \cup {SgDash(SgL("number", n, "")) : n \in 1..2}
SgTocLines == {SgL("toc", 0, ""), SgL("tocends", 0, ""), SgL("part", 1, ""), SgText} \cup SgNumbers
SgMasLines == SgNumbers \cup {SgText, SgL("roman", 1, ""), SgL("heading", 1, ""), SgL("title", 0, ""), SgL("dot", 1, ""), SgL("dot", 2, "")}
SgMasInner == {SgPara("h"), SgPara("i"), SgPara("ii"), SgL("subsec", 1, ""), SgL("heading", 1, ""), SgText, SgWith(SgL("number", 2, ""), "subsec")}
            \cup {SgL("number", 1, ""), SgL("symbols", 0, "")}
            \cup {[SgWith(SgL("number", 2, ""), "para") EXCEPT !.tok = tok] : tok \in {"h", "i"}}
SgNear == {-2, -1, 0, 1, 2}

SgAct == INSTANCE SingaporeParse WITH
  Form <- "act", Pieces <- SgActLines, Enacting <- TRUE, Skips <- SgNear,
  MaxLines <- 4
SgContents == INSTANCE SingaporeParse WITH
  Form <- "act", Pieces <- SgTocLines, Enacting <- FALSE, Skips <- SgNear,
  MaxLines <- 5
SgWithin == INSTANCE SingaporeParse WITH
  Form <- "act", Pieces <- SgActInner, Enacting <- FALSE, Skips <- SgNear,
  MaxLines <- 5
SgNotice == INSTANCE SingaporeParse WITH
  Form <- "mas", Pieces <- SgMasLines, Enacting <- FALSE, Skips <- SgNear,
  MaxLines <- 4
SgItems == INSTANCE SingaporeParse WITH
  Form <- "mas", Pieces <- SgMasInner, Enacting <- FALSE, Skips <- SgNear,
  MaxLines <- 5

RestSingapore == UNCHANGED <<case, form, input, conv, val, pc, package, builder, doc, rows, at, chunks>>
IdleSingapore ==
  /\ form = Off /\ input = Off /\ conv = Off /\ val = Off /\ pc = Off /\ package = Off
  /\ builder = Off /\ doc = Off /\ rows = Off /\ at = Off /\ chunks = Off

-------------------------------------------------------------------------------
(* Lines of an Act and of a notification. *)
ThL(shape, n, suffix) == [shape |-> shape, n |-> n, suffix |-> suffix, rest |-> "text", real |-> TRUE]
ThBare(l) == [l EXCEPT !.rest = ""]
ThFake(l) == [l EXCEPT !.real = FALSE]
ThText == ThL("text", 0, "")
ThNumbered(shape) == {ThL(shape, n, "") : n \in 1..2} \cup {ThFake(ThL(shape, n, "")) : n \in 1..3}

ThActLines == ThNumbered("matra") \cup {ThL("matra", 1, "thawi"), ThFake(ThL("matra", 1, "thawi")), ThText, ThBare(ThL("chapter", 1, "")),
            ThL("notes", 0, ""), ThL("noise", 0, "")}
ThStructure == {ThBare(ThL("chapter", 1, "")), ThL("chapter", 1, ""), ThBare(ThL("part", 1, "")), ThL("part", 1, ""), ThL("transitional", 0, ""),
              ThBare(ThL("matra", 1, "")), [ThL("matra", 1, "") EXCEPT !.rest = "item"], ThL("matra", 1, "tri"), ThFake(ThL("matra", 1, "tri")), ThL("item", 1, ""), ThL("item", 2, ""), ThText}
ThBotLines == ThNumbered("khor") \cup {ThBare(ThL("khor", 1, "")), ThL("item", 1, ""), ThText, ThL("notes", 0, ""), ThL("noise", 0, "")}

ThAct == INSTANCE ThailandParse WITH
  Form <- "act", Pieces <- ThActLines, MaxLines <- 4
ThTree == INSTANCE ThailandParse WITH
  Form <- "act", Pieces <- ThStructure, MaxLines <- 4
ThNotification == INSTANCE ThailandParse WITH
  Form <- "bot", Pieces <- ThBotLines, MaxLines <- 5

RestThailand == UNCHANGED <<case, form, front, inTOC, input, conv, val, pc, package, builder, doc, rows, at, chunks>>
IdleThailand ==
  /\ form = Off /\ front = Off /\ inTOC = Off /\ input = Off /\ conv = Off /\ val = Off /\ pc = Off
  /\ package = Off /\ builder = Off /\ doc = Off /\ rows = Off /\ at = Off /\ chunks = Off

-------------------------------------------------------------------------------
(* Lines of a regulation, of its explanation and of its articles. *)
IdL(shape, n) == [shape |-> shape, n |-> n, rest |-> "text", amend |-> FALSE, caps |-> FALSE, real |-> shape # "text"]
IdBare(l) == [l EXCEPT !.rest = ""]
IdFake(l) == [l EXCEPT !.real = FALSE]
IdAmends(l) == [l EXCEPT !.amend = TRUE]
IdText == IdL("text", 0)
IdCaps == [IdText EXCEPT !.caps = TRUE]
IdNoise == IdFake(IdL("noise", 0))

IdPasals == {IdBare(IdL("pasal", n)) : n \in 1..2} \cup {IdFake(IdBare(IdL("pasal", n))) : n \in 1..3}
IdBodyLines == IdPasals \cup {IdText, IdAmends(IdText), IdAmends(IdL("pasal", 2)), IdL("bab", 1), IdNoise}
IdNotes == IdPasals \cup {IdText, IdL("banner", 0), IdL("demi", 0), IdL("lampiran", 1)}
IdInner == {IdL("bab", 1), IdL("bagian", 1), IdL("paragraf", 1), [IdL("pasal", 1) EXCEPT !.rest = "ayat"], IdBare(IdL("pasal", 2)), IdText, IdCaps,
          IdAmends(IdL("ayat", 1)), IdL("ayat", 2), IdBare(IdL("ayat", 2)), IdL("huruf", 1), IdFake(IdL("bagian", 1)), IdNoise}

IdArticles == INSTANCE IndonesiaParse WITH
  Pieces <- IdBodyLines, MaxLines <- 5
IdExplanation == INSTANCE IndonesiaParse WITH
  Pieces <- IdNotes, MaxLines <- 5
IdWithin == INSTANCE IndonesiaParse WITH
  Pieces <- IdInner, MaxLines <- 4

RestIndonesia == UNCHANGED <<case, form, inTOC, input, conv, val, pc, package, builder, doc, rows, at, chunks>>
IdleIndonesia ==
  /\ form = Off /\ inTOC = Off /\ input = Off /\ conv = Off /\ val = Off /\ pc = Off
  /\ package = Off /\ builder = Off /\ doc = Off /\ rows = Off /\ at = Off /\ chunks = Off

-------------------------------------------------------------------------------
(* Lines of an amending text, of a code, of an old outline and of texts that lost their headings. *)
VnL(shape, n) == [shape |-> shape, n |-> n, suffix |-> "", rest |-> "text", words |-> "sentence", bold |-> FALSE, q |-> ""]
VnBare(l) == [l EXCEPT !.rest = ""]
VnBold(l) == [l EXCEPT !.bold = TRUE]
VnShort(l) == [l EXCEPT !.words = "short"]
VnArt(l) == [l EXCEPT !.words = "art"]
VnQ(l, q) == [l EXCEPT !.q = q]
VnProse == VnL("text", 0)

VnAmending == {VnL("dieu", 1), VnL("number", 1), VnL("letter", 1), VnQ(VnL("number", 1), "open"), VnQ(VnL("number", 2), "sopen"), VnL("chuong", 1),
             VnQ(VnL("letter", 2), "close"), VnQ(VnProse, "sclose"), VnQ(VnProse, "inner")}
VnTree == {VnL("phan", 1), VnBare(VnL("chuong", 1)), VnL("muc", 1), VnL("dieu", 1), VnBare(VnL("dieu", 1)), [VnL("dieu", 1) EXCEPT !.suffix = "b"],
         [VnL("dieu", 2) EXCEPT !.rest = "prose"], VnL("number", 1), VnL("letter", 0), VnBare(VnL("phuluc", 0)), VnL("phuluc", 1), VnProse}
VnLost == {VnL("chuong", 1), VnL("chuong", 2), VnShort(VnL("number", 1)), VnL("number", 1), VnShort(VnL("number", 2)), VnArt(VnL("number", 1)),
         VnBold(VnL("number", 2)), VnL("dieu", 1), VnProse, VnBold(VnL("roman", 1))}
VnUnstructured == {VnL("number", 1), VnL("number", 2), VnL("decimal", 1), VnProse, VnL("table", 0), VnL("rule", 0), VnL("chuong", 1)}

VnAmends == INSTANCE VietnamParse WITH
  Pieces <- VnAmending, Supplements <- FALSE, MaxLines <- 5
VnCode == INSTANCE VietnamParse WITH
  Pieces <- VnTree, Supplements <- FALSE, MaxLines <- 4
VnLostHeadings == INSTANCE VietnamParse WITH
  Pieces <- VnLost, Supplements <- FALSE, MaxLines <- 4
VnOutline == INSTANCE VietnamParse WITH
  Pieces <- VnUnstructured, Supplements <- TRUE, MaxLines <- 5

RestVietnam == UNCHANGED <<case, form, front, inTOC, input, conv, val, pc, package, builder, doc, rows, at, chunks>>
IdleVietnam ==
  /\ form = Off /\ front = Off /\ inTOC = Off /\ input = Off /\ conv = Off /\ val = Off /\ pc = Off
  /\ package = Off /\ builder = Off /\ doc = Off /\ rows = Off /\ at = Off /\ chunks = Off

-------------------------------------------------------------------------------
(* Tokens of an HTML original. *)
HtmlT(type, name, match, attr) == [type |-> type, name |-> name, match |-> match, attr |-> attr]
HtmlStart(name) == HtmlT("start", name, FALSE, "none")
HtmlEnd(name) == HtmlT("end", name, FALSE, "none")
HtmlText == HtmlT("text", "", FALSE, "none")
HtmlBody == HtmlT("start", "body", TRUE, "none")

\* Nesting of blocks, list items, headings and neutral elements around loose text.
HtmlStructure == {HtmlBody, HtmlEnd("body"), HtmlText, HtmlStart("br")}
             \cup UNION {{HtmlStart(n), HtmlEnd(n)} : n \in {"div", "li", "h1", "blockquote", "span"}}

\* The selection is an inner element, inside a list item or a heading.
HtmlInner == {HtmlT("start", "span", TRUE, "none"), HtmlT("start", "div", TRUE, "none"), HtmlText, HtmlStart("br")}
         \cup UNION {{HtmlStart(n), HtmlEnd(n)} : n \in {"span", "div", "li", "ul"}}

\* Content without a block: scripts, images, comments, attributes, unknown elements.
HtmlGaps == {HtmlBody, HtmlEnd("body"), HtmlText, HtmlT("comment", "", FALSE, "none"), HtmlT("self", "img", FALSE, "other"),
         HtmlT("start", "p", FALSE, "other"), HtmlEnd("p"), HtmlT("start", "p", TRUE, "none"),
         HtmlT("start", "p", FALSE, "charset")}
        \cup UNION {{HtmlStart(n), HtmlEnd(n)} : n \in {"script", "table"}} \cup {HtmlStart("hr")}

HtmlBlocks == INSTANCE HtmlDerivation WITH
  Tokens <- HtmlStructure, MaxTokens <- 7, MaxItems <- 9, DepthLimit <- 4, OutputBytes <- 9
HtmlSelection == INSTANCE HtmlDerivation WITH
  Tokens <- HtmlInner, MaxTokens <- 6, MaxItems <- 9, DepthLimit <- 4, OutputBytes <- 2
HtmlContent == INSTANCE HtmlDerivation WITH
  Tokens <- HtmlGaps, MaxTokens <- 5, MaxItems <- 6, DepthLimit <- 3, OutputBytes <- 9

RestHtml == UNCHANGED <<case, form, front, p, lines, real, returned, inTOC, package, builder, doc, rows, at, chunks>>
IdleHtml ==
  /\ form = Off /\ front = Off /\ p = Off /\ lines = Off /\ real = Off /\ returned = Off
  /\ inTOC = Off /\ package = Off /\ builder = Off /\ doc = Off /\ rows = Off /\ at = Off
  /\ chunks = Off

-------------------------------------------------------------------------------
(* Packages and tokens of a DOCX original. *)
DocxM(name, size, packed, xml) == [name |-> name, size |-> size, packed |-> packed, xml |-> xml, deep |-> 1,
                               directive |-> FALSE, safe |-> TRUE, dir |-> FALSE, archive |-> FALSE]
DocxDocument == DocxM("document", 2, 1, 0)
DocxStyles(n) == DocxM("styles", 1, 1, n)
DocxPlain == {<<DocxDocument>>}
DocxMany == {<<DocxDocument, DocxStyles(1)>>, <<DocxStyles(1), DocxDocument>>, <<DocxStyles(3), DocxDocument>>, <<DocxDocument, DocxDocument>>,
         <<[DocxStyles(0) EXCEPT !.dir = TRUE], DocxDocument>>, <<DocxDocument, [DocxStyles(0) EXCEPT !.archive = TRUE]>>,
         <<DocxDocument, DocxM("image", 4, 1, 0)>>, <<DocxDocument, DocxM("image", 2, 1, 0), DocxStyles(0)>>,
         <<DocxDocument, DocxM("image", 2, 0, 0)>>, <<DocxDocument, [DocxStyles(0) EXCEPT !.safe = FALSE]>>, <<DocxStyles(0)>>,
         <<DocxDocument, [DocxStyles(1) EXCEPT !.deep = 9]>>, <<DocxDocument, DocxStyles(1), DocxM("image", 1, 1, 0)>>,
         <<DocxDocument, DocxStyles(1), DocxM("image", 1, 1, 0), DocxM("theme", 0, 0, 0)>>}

DocxS(name, attr) == [type |-> "start", name |-> name, attr |-> attr]
DocxT(type) == [type |-> type, name |-> "", attr |-> FALSE]
DocxWords == {DocxS("document", FALSE), DocxS("p", FALSE), DocxS("t", FALSE), DocxS("tab", FALSE), DocxT("end"), DocxT("chars")}
DocxAll == DocxWords \cup {DocxS("br", TRUE), DocxS("foreign", FALSE), DocxS("table", FALSE), DocxT("blank"), DocxT("directive")}

DocxText == INSTANCE DocxDerivation WITH
  Packages <- DocxPlain, Tokens <- DocxWords, MaxTokens <- 10, MaxItems <- 12, Members <- 3,
  DepthLimit <- 4, Expanded <- 4, Ratio <- 2, OutputBytes <- 4
DocxFiles == INSTANCE DocxDerivation WITH
  Packages <- DocxMany, Tokens <- DocxAll, MaxTokens <- 6, MaxItems <- 8, Members <- 3,
  DepthLimit <- 4, Expanded <- 4, Ratio <- 2, OutputBytes <- 1

RestDocx == UNCHANGED <<case, form, front, p, lines, real, returned, inTOC, val, builder, doc, rows, at, chunks>>
IdleDocx ==
  /\ form = Off /\ front = Off /\ p = Off /\ lines = Off /\ real = Off /\ returned = Off
  /\ inTOC = Off /\ val = Off /\ builder = Off /\ doc = Off /\ rows = Off /\ at = Off
  /\ chunks = Off

-------------------------------------------------------------------------------
(***************************************************************************)
(* Texts of one to three bytes: a plain one, the empty one, a line ending  *)
(* and a composed letter with their normal forms, and one that cannot be   *)
(* read.                                                                   *)
(***************************************************************************)
ChainTextSet == {"", "a", "crlf", "lf", "e+acute", "eacute", "private"}
ChainNormalOf == [t \in ChainTextSet |-> CASE t = "crlf" -> "lf" [] t = "e+acute" -> "eacute" [] OTHER -> t]
ChainSizeOf == ("" :> 0) @@ ("a" :> 1) @@ ("crlf" :> 2) @@ ("lf" :> 1) @@ ("e+acute" :> 3) @@ ("eacute" :> 2) @@ ("private" :> 3)
ChainUnreadable == {"private"}

Budgeted == INSTANCE BlockChains WITH
  Texts <- ChainTextSet, Normal <- ChainNormalOf, Size <- ChainSizeOf, Corrupt <- ChainUnreadable,
  MaxBlocks <- 3, MaxItems <- 14, OutputBytes <- 18, b <- builder
Altered == INSTANCE BlockChains WITH
  Texts <- ChainTextSet, Normal <- ChainNormalOf, Size <- ChainSizeOf, Corrupt <- ChainUnreadable,
  MaxBlocks <- 2, MaxItems <- 20, OutputBytes <- 30, b <- builder

RestChains == UNCHANGED <<case, form, front, p, lines, real, returned, inTOC, input, conv, val, package, rows, at, chunks>>
IdleChains ==
  /\ form = Off /\ front = Off /\ p = Off /\ lines = Off /\ real = Off /\ returned = Off
  /\ inTOC = Off /\ input = Off /\ conv = Off /\ val = Off /\ package = Off /\ rows = Off
  /\ at = Off /\ chunks = Off

-------------------------------------------------------------------------------
(* Rows of a Vietnamese code, with and without headings. *)
ChunkVietnam == [phan |-> 1, phuluc |-> 1, chuong |-> 2, muc |-> 3, dieu |-> 4, khoan |-> 5, diem |-> 6]
ChunkMalaysia == [part |-> 1, schedule |-> 1, chapter |-> 2, section |-> 4, subsection |-> 5, paragraph |-> 6]
ChunkThailand == [chapter |-> 1, part |-> 2, section |-> 4, paragraph |-> 5]

ChunkP(kind, num, head, body) == [kind |-> kind, num |-> num, head |-> head, body |-> body, whole |-> FALSE, again |-> FALSE]

\* An article, its clauses and points, some with a heading or a text of several lines.
ChunkArticlePieces ==
  {ChunkP("dieu", n, h, b) : n \in 1..2, h \in BOOLEAN, b \in {<<>>, <<2>>, <<2, 3>>}}
    \cup {ChunkP("khoan", n, FALSE, b) : n \in 1..2, b \in {<<2>>, <<3, 3>>}}
    \cup {ChunkP("diem", 1, FALSE, <<2>>)}

Articles == INSTANCE Chunking WITH
  LevelOf <- ChunkVietnam, Pieces <- ChunkArticlePieces, Copies <- "doan",
  MaxRows <- 3, Cap <- 5, MinWords <- 2

RestChunking == UNCHANGED <<case, form, front, p, lines, real, returned, inTOC, input, conv, val, pc, package, builder, doc>>
IdleChunking ==
  /\ form = Off /\ front = Off /\ p = Off /\ lines = Off /\ real = Off /\ returned = Off
  /\ inTOC = Off /\ input = Off /\ conv = Off /\ val = Off /\ pc = Off /\ package = Off
  /\ builder = Off /\ doc = Off

-------------------------------------------------------------------------------
SuiteInit ==
  /\ case \in Cases
  /\ \/ /\ IdleMalaysia
        /\ \/ case = "my-act" /\ MyAct!Init
           \/ case = "my-paragraphs" /\ MyParagraphs!Init
           \/ case = "my-policy" /\ MyPolicy!Init
           \/ case = "my-letter" /\ MyLetterText!Init
     \/ /\ IdleSingapore
        /\ \/ case = "sg-act" /\ SgAct!Init
           \/ case = "sg-contents" /\ SgContents!Init
           \/ case = "sg-inner" /\ SgWithin!Init
           \/ case = "sg-notice" /\ SgNotice!Init
           \/ case = "sg-items" /\ SgItems!Init
     \/ /\ IdleThailand
        /\ \/ case = "th-act" /\ ThAct!Init
           \/ case = "th-structure" /\ ThTree!Init
           \/ case = "th-notification" /\ ThNotification!Init
     \/ /\ IdleIndonesia
        /\ \/ case = "id-articles" /\ IdArticles!Init
           \/ case = "id-notes" /\ IdExplanation!Init
           \/ case = "id-inner" /\ IdWithin!Init
     \/ /\ IdleVietnam
        /\ \/ case = "vn-amending" /\ VnAmends!Init
           \/ case = "vn-tree" /\ VnCode!Init
           \/ case = "vn-lost" /\ VnLostHeadings!Init
           \/ case = "vn-outline" /\ VnOutline!Init
     \/ /\ IdleHtml
        /\ \/ case = "html-structure" /\ HtmlBlocks!Init
           \/ case = "html-inner" /\ HtmlSelection!Init
           \/ case = "html-gaps" /\ HtmlContent!Init
     \/ /\ IdleDocx
        /\ \/ case = "docx-words" /\ DocxText!Init
           \/ case = "docx-packages" /\ DocxFiles!Init
     \/ /\ IdleChains
        /\ \/ case = "budget" /\ Budgeted!Init
           \/ case = "altered" /\ Altered!Init
     \/ case = "chunks" /\ Articles!Init /\ IdleChunking

SuiteNext ==
  \/ case = "my-act" /\ MyAct!Next /\ RestMalaysia
  \/ case = "my-paragraphs" /\ MyParagraphs!Next /\ RestMalaysia
  \/ case = "my-policy" /\ MyPolicy!Next /\ RestMalaysia
  \/ case = "my-letter" /\ MyLetterText!Next /\ RestMalaysia
  \/ case = "sg-act" /\ SgAct!Next /\ RestSingapore
  \/ case = "sg-contents" /\ SgContents!Next /\ RestSingapore
  \/ case = "sg-inner" /\ SgWithin!Next /\ RestSingapore
  \/ case = "sg-notice" /\ SgNotice!Next /\ RestSingapore
  \/ case = "sg-items" /\ SgItems!Next /\ RestSingapore
  \/ case = "th-act" /\ ThAct!Next /\ RestThailand
  \/ case = "th-structure" /\ ThTree!Next /\ RestThailand
  \/ case = "th-notification" /\ ThNotification!Next /\ RestThailand
  \/ case = "id-articles" /\ IdArticles!Next /\ RestIndonesia
  \/ case = "id-notes" /\ IdExplanation!Next /\ RestIndonesia
  \/ case = "id-inner" /\ IdWithin!Next /\ RestIndonesia
  \/ case = "vn-amending" /\ VnAmends!Next /\ RestVietnam
  \/ case = "vn-tree" /\ VnCode!Next /\ RestVietnam
  \/ case = "vn-lost" /\ VnLostHeadings!Next /\ RestVietnam
  \/ case = "vn-outline" /\ VnOutline!Next /\ RestVietnam
  \/ case = "html-structure" /\ HtmlBlocks!Next /\ RestHtml
  \/ case = "html-inner" /\ HtmlSelection!Next /\ RestHtml
  \/ case = "html-gaps" /\ HtmlContent!Next /\ RestHtml
  \/ case = "docx-words" /\ DocxText!Next /\ RestDocx
  \/ case = "docx-packages" /\ DocxFiles!Next /\ RestDocx
  \/ case = "budget" /\ Budgeted!Next /\ RestChains
  \/ case = "altered" /\ Altered!Next /\ RestChains
  \/ case = "chunks" /\ Articles!Next /\ RestChunking

SuiteSpec == SuiteInit /\ [][SuiteNext]_suite

\* The assumptions of the components hold in every instance.
ASSUME InstancesAssumption ==
    /\ MyAct!PiecesAssumption /\ MyParagraphs!PiecesAssumption /\ MyPolicy!PiecesAssumption /\ MyLetterText!PiecesAssumption
    /\ SgAct!PiecesAssumption /\ SgContents!PiecesAssumption /\ SgWithin!PiecesAssumption
    /\ SgNotice!PiecesAssumption /\ SgItems!PiecesAssumption
    /\ ThAct!PiecesAssumption /\ ThTree!PiecesAssumption /\ ThNotification!PiecesAssumption
    /\ IdArticles!PiecesAssumption /\ IdExplanation!PiecesAssumption /\ IdWithin!PiecesAssumption
    /\ VnAmends!PiecesAssumption /\ VnCode!PiecesAssumption /\ VnLostHeadings!PiecesAssumption
    /\ VnOutline!PiecesAssumption
    /\ Articles!SizesAssumption

(***************************************************************************)
(* The trees                                                               *)
(***************************************************************************)

\* No line below the first heading is lost: it is in some node of the tree.
TextKept ==
    CASE case = "my-act" -> MyAct!TextKept
      [] case = "my-policy" -> MyPolicy!TextKept
      [] case = "my-letter" -> MyLetterText!TextKept
      [] case = "sg-act" -> SgAct!TextKept
      [] case = "sg-notice" -> SgNotice!TextKept
      [] case = "th-act" -> ThAct!TextKept
      [] case = "th-notification" -> ThNotification!TextKept
      [] case = "id-articles" -> IdArticles!TextKept
      [] case = "id-inner" -> IdWithin!TextKept
      [] case = "vn-amending" -> VnAmends!TextKept
      [] case = "vn-outline" -> VnOutline!TextKept
      [] OTHER -> TRUE

\* The sections found are headings of the document, and every heading read is
\* found, whatever lists, references, quotations and annexes stand between them, as long as
\* none of these carries the very next number (malaysiaparse.go:263, singaporeparse.go:99,
\* indonesiaparse.go:437) or repeats an insert (thailandparse.go:322): the texts include such
\* lines, and what the parser makes of them is not claimed to be the document's structure.
HeadingsReal ==
    CASE case = "my-act" -> MyAct!SectionsAreReal
      [] case = "sg-act" -> SgAct!SectionsAreReal /\ SgAct!HeadingsFound
      [] case = "sg-contents" -> SgContents!SectionsAreReal /\ SgContents!HeadingsFound
      [] case = "sg-notice" -> SgNotice!SectionsAreReal /\ SgNotice!HeadingsFound
      [] case = "th-act" -> ThAct!SectionsAreReal /\ ThAct!SectionsFound
      [] case = "th-notification" -> ThNotification!SectionsAreReal /\ ThNotification!SectionsFound
      [] case = "id-articles" -> IdArticles!PasalsAreReal /\ IdArticles!PasalsFound
      [] case = "id-notes" -> IdExplanation!PasalsAreReal
      [] OTHER -> TRUE

\* No two provisions of a document have the same citation path, but for an insert of a Thai
\* Act that is read twice and for what stands below a Singapore heading without a letter.
UniquePaths ==
    CASE case = "my-paragraphs" -> MyParagraphs!UniquePaths
      [] case = "my-letter" -> MyLetterText!UniquePaths
      [] case = "sg-inner" -> SgWithin!UniquePaths
      [] case = "sg-items" -> SgItems!UniquePaths
      [] case = "th-structure" -> ThTree!UniquePaths
      [] case = "id-inner" -> IdWithin!UniquePaths
      [] case = "vn-tree" -> VnCode!UniquePaths
      [] case = "vn-outline" -> VnOutline!UniquePaths
      [] OTHER -> TRUE

\* The open provisions are the last branch of the tree, and a line has one place.
RightSpine ==
    CASE case = "my-paragraphs" -> MyParagraphs!RightSpine
      [] case = "sg-inner" -> SgWithin!RightSpine
      [] case = "vn-tree" -> VnCode!PointersValid
      [] OTHER -> TRUE

\* A single i, v or x on a line of its own is an alphabetic item only where it continues its
\* letters.
AlphaRun ==
    CASE case = "my-paragraphs" -> MyParagraphs!AlphaRun
      [] case = "sg-inner" -> SgWithin!AlphaRun
      [] case = "sg-items" -> SgItems!AlphaRun
      [] OTHER -> TRUE

\* A title belongs to the heading it stands with; a notice's paragraph and a policy
\* document's standards stand in the chapter they were read in.
InItsPlace ==
    CASE case = "my-policy" -> MyPolicy!BodyKept /\ MyPolicy!OwnChapter
      [] case = "sg-notice" -> SgNotice!UnderItsHeading
      [] case = "th-structure" -> ThTree!OwnTitle
      [] case = "id-inner" -> IdWithin!OwnTitle
      [] case = "vn-tree" -> VnCode!OwnTitle
      [] OTHER -> TRUE

\* What an amending text quotes, an explanation explains or a preamble lists is no
\* structure of the text itself; of the quotations, until one within another spans lines, and
\* of the explanation, what it says of the articles: its general part is put in the provision
\* above it (legalparse.go:228, indonesiaparse.go:348).
QuotesAreText ==
    CASE case = "vn-amending" -> VnAmends!QuotesAreText
      [] case = "vn-tree" -> VnCode!ClausesInArticles
      [] case = "vn-lost" -> VnLostHeadings!ClausesInArticles /\ VnLostHeadings!LostArticlesNumbered
      [] case = "id-notes" -> IdExplanation!ExplanationApart
      [] OTHER -> TRUE

\* A text without structure is stored whole.
NeverEmpty ==
    CASE case = "th-structure" -> ThTree!NeverEmpty
      [] case = "id-inner" -> IdWithin!NeverEmpty
      [] OTHER -> TRUE

\* The provision tree of a text is faithful to it: every line from the first heading on is
\* in a node, the headings are the document's own, each stands under the heading it
\* belongs to and cites a path of its own, and quoted or listed text makes no structure
\* (the parsers of pkg/pipeline).  The parsers tell a heading from what looks like one by its
\* number and by flags, and the exceptions named with each part are the lines for which that
\* is not enough; there the parts claim less than malaysiaparse.go:258, legalparse.go:222 and
\* indonesiaparse.go:325 say.  The order in which the rows come back is not claimed.
TreesFaithful ==
    /\ TextKept /\ NeverEmpty
    /\ HeadingsReal /\ AlphaRun /\ QuotesAreText
    /\ UniquePaths /\ RightSpine /\ InItsPlace

(***************************************************************************)
(* The derivations                                                         *)
(***************************************************************************)

\* Blocks, findings and counters have their types and bounds.
ComponentTypes ==
    CASE case = "html-gaps" -> HtmlContent!TypeOK
      [] case = "docx-packages" -> DocxFiles!TypeOK
      [] case = "budget" -> Budgeted!TypeOK
      [] OTHER -> TRUE

\* What the converter made of an original is accepted by the second reading.
ValidatorAgrees ==
    CASE case = "html-structure" -> HtmlBlocks!ValidatorAgrees
      [] case = "html-inner" -> HtmlSelection!ValidatorAgrees
      [] case = "docx-words" -> DocxText!ValidatorAgrees
      [] case = "docx-packages" -> DocxFiles!ValidatorAgrees
      [] OTHER -> TRUE

\* And what was altered afterwards is not.
AlteredIsRejected ==
    CASE case = "html-gaps" -> HtmlContent!AlteredIsRejected
      [] case = "docx-words" -> DocxText!AlteredIsRejected
      [] OTHER -> TRUE

\* The text of an original is in the blocks, once and in order, or named by a finding.
NothingLost ==
    CASE case = "html-inner" -> HtmlSelection!NothingLost
      [] case = "html-gaps" -> HtmlContent!NothingLost
      [] case = "docx-words" -> DocxText!NothingLost
      [] case = "docx-packages" -> DocxFiles!NothingLost
      [] OTHER -> TRUE

\* Loose text goes to a block of the element it stands in.
TextInItsElement == case = "html-structure" => HtmlBlocks!TextInItsElement

\* A converted package kept the limits on members, expansion, ratio and depth.
PackageBounded == case = "docx-packages" => DocxFiles!PackageBounded

\* A staged document passes the semantic check, and only the staged one does.
OnlyCanonical ==
    CASE case = "budget" -> Budgeted!StagedIsAccepted
      [] case = "altered" -> Altered!OnlyCanonical
      [] OTHER -> TRUE

\* The blocks of an HTML or DOCX original agree with it: the second reading accepts them
\* and rejects what was altered, the text is there once, in order and in its element or
\* is named by a finding, and a package was within its limits.
DerivationsAgree ==
    /\ ComponentTypes /\ ValidatorAgrees /\ AlteredIsRejected
    /\ NothingLost /\ TextInItsElement
    /\ PackageBounded /\ OnlyCanonical

(***************************************************************************)
(* The chunks                                                              *)
(***************************************************************************)

\* No chunk is heavier than the limit; a line of a provision that fits in a chunk is found
\* whole in one and an article is put together again as it was, unless a provision has
\* children of two kinds; and a citation stands for one chunk and one article, unless a label
\* is repeated.  Of children of two kinds structuredChildren (index_activities.go:876) keeps
\* one, although docs/design/rag.md:29 has a heavy provision split through its legal children.
ChunksFaithful ==
    case = "chunks" => Articles!CapKept /\ Articles!LinesKept /\ Articles!ArticleVerbatim /\ Articles!UniqueCitations
===============================================================================
