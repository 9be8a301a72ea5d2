---------------------------- MODULE MCExtraction ----------------------------
(***************************************************************************)
(* Small PDFs for TLC: one page of up to three elements, and some with a   *)
(* second or a blank page or with pages that are images only.              *)
(***************************************************************************)
EXTENDS Extraction

Words ==
  [t \in {"word", "other", "section", "rate", "tail", "equals", "provided", "aksar",
          "garbage", "ignore", "nul", "shred"} |->
    CASE t = "section" -> {"number", "clause"}
      [] t \in {"rate", "tail"} -> {"number"}
      [] t = "equals" -> {"formula"}
      [] t = "provided" -> {"proviso", "clause"}
      [] t = "aksar" -> {"devanagari"}
      [] t = "garbage" -> {"replacement"}
      [] t = "ignore" -> {"injection"}
      [] t = "nul" -> {"nul"}
      [] OTHER -> {}]

\* One number is as long as the tokenizer's overlap and one token more.
WordPieces ==
  [t \in DOMAIN Words |->
    CASE t = "rate" -> 5 [] t = "other" -> 3 [] t = "tail" -> 2 [] OTHER -> 1]

\* Of a word that is cut, shreds are left: as many as tokens were, but one
\* more of the second token of "tail".  The tokenizer does not know "equals".
Remains ==
  [t \in DOMAIN Words |->
    [w \in (1..WordPieces[t]) \X (1..WordPieces[t]) |->
      CASE t = "equals" -> <<>>
        [] t # "equals" /\ w = <<1, WordPieces[t]>> -> <<t>>
        [] t = "tail" /\ w = <<2, 2>> -> <<"shred", "shred">>
        [] OTHER -> [i \in 1..(w[2] - w[1] + 1) |-> "shred"]]]

Element(kind, level, text, grid) ==
  [kind |-> kind, level |-> level, text |-> text, grid |-> grid]

Elements ==
  {Element("heading", 1, <<"section">>, <<>>),
   Element("heading", 2, <<"tail", "other">>, <<>>),
   Element("paragraph", None, <<"other", "other", "rate", "word">>, <<>>),
   Element("paragraph", None, <<"equals", "word">>,
           <<<<TRUE, FALSE>>, <<FALSE, FALSE>>>>),
   Element("paragraph", None, <<"provided", "tail">>, <<>>),
   Element("table", None, <<"rate", "word">>, <<<<TRUE, TRUE>>, <<TRUE, TRUE>>>>)}

Doubtful ==
  {<<Element("paragraph", None, <<"word", "ignore">>, <<>>)>>,
   <<Element("heading", 1, <<"ignore">>, <<>>),
     Element("paragraph", None, <<"word">>, <<>>)>>,
   <<Element("paragraph", None, <<"aksar", "garbage">>, <<>>)>>,
   <<Element("paragraph", None, <<"nul">>, <<>>),
     Element("paragraph", None, <<"nul", "provided">>, <<>>)>>,
   <<Element("image", None, <<>>, <<>>),
     Element("paragraph", None, <<"provided", "word">>, <<>>)>>}

Plain == Element("paragraph", None, <<"equals", "word", "other">>, <<>>)

\* A text whose second window grows under a heading, and whose formula is lost.
Grows == Element("paragraph", None, <<"equals", "other", "tail", "rate", "other">>, <<>>)

Pdf(pages, scanned) == [pages |-> pages, scanned |-> scanned]

SmallPdfs ==
  {Pdf(<<page>>, FALSE) : page \in UNION {[1..n -> Elements] : n \in 0..3} \cup Doubtful}
    \cup {Pdf(<<<<Plain>>, <<e>>>>, scanned) : e \in Elements, scanned \in BOOLEAN}
    \cup {Pdf(<<<<Grows>>>>, FALSE),
          Pdf(<<<<Element("heading", 1, <<"section">>, <<>>), Grows>>>>, FALSE)}
    \cup {Pdf(<<<<Plain>>, <<>>>>, FALSE), Pdf(<<>>, FALSE)}

EngineChains ==
  {<<"opendataloader">>, <<"opendataloader", "pymupdf">>, <<"docling", "paddleocr">>}

\* TLC evaluates what replaces a constant at every use, and what that names once.
MCMarks == Words
MCPieces == WordPieces
MCDecoded == Remains
MCPdfs == SmallPdfs
MCChains == EngineChains
=============================================================================
