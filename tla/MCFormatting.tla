---------------------------- MODULE MCFormatting ----------------------------
(* Instances of Formatting: sources given word by word, "↵" for a new line. *)
EXTENDS Formatting

Names == {"a", "b", "f", "x", "m", "K"}

\* What the lexer makes of a word: the token's class and its text.
Lexeme(w) ==
    CASE w \in Names -> <<"ident", w>>
      [] w \in {"1", "2", "3"} -> <<"int", w>>
      [] w \in {"'s'", "'t'"} -> <<"string", w>>
      [] w = "'c'" -> <<"char", w>>
      [] w = "</x/>" -> <<"exec", w>>
      [] w = "a°" -> <<"hot", "a">>
      [] w = "°a" -> <<"prehot", "a">>
      [] w = "@:L" -> <<"@:", "L">>
      [] w = "@:L!" -> <<"@:!", "L">>
      [] w = "@:L>" -> <<"@:>", "L">>
      [] w = "##_" -> <<"unit", "">>
      [] w = "#1#" -> <<"mode", "d">>
      [] OTHER -> <<w, "">>

RECURSIVE Lexed(_, _, _)
Lexed(words, i, line) ==
    CASE i > Len(words) -> <<Eof(line)>>
      [] i <= Len(words) /\ words[i] = "↵" -> Lexed(words, i + 1, line + 1)
      [] OTHER -> <<Token(Lexeme(words[i])[1], Lexeme(words[i])[2], line)>> \o Lexed(words, i + 1, line)

Laid(words, anywhere, writable) ==
    [tokens |-> Lexed(words, 1, 1),
     places |-> IF anywhere THEN 2 .. Len(Lexed(words, 1, 1)) - 1 ELSE {},
     writable |-> writable,
     rest |-> Lexed(words, 1, 1)]

\* Sources a line of which may break anywhere.
Anywhere ==
  {<<"#", "m", "{", "↵", "<#", ".", "/", "a", "=>", "x", "↵", "#>", "{", "f", ",", "x", "::", "f", "=>", "b", ";", "x", ".", "K", "}", "↵", "K", ":=", "-", "1", "↵", "f", "(", ")", "{", "↵", "<~", "1", "↵", "}", "↵", "}">>,
   <<"#", ".", "m", "{", "↵", "#>", "{", "↵", "f", "↵", "}", "↵", "<#", "..", "/", "..", "/", "a", "/", "b", "=>", "x", "↵", "a", "=", "[", "1", ",", "#(", "m", ":", "2", ")", "]", "↵", "f", "(", ")", "{", "}", "↵", "}">>,
   <<"<#", "a", "=>", "x", ";", "<#", ".", "/", "b", "=>", "m", "↵", "a", "=", "x", ".", "K">>,
   <<">>", "[", "1", ",", "2", "]", ">>", "a", "↵", "b", "=", "1">>,
   <<"a", "=", "[", "1", ",", "2", ",", "3", "]", ";", "°a", "+=", "2", ";", "a°", "-=", "1">>,
   <<"a", "++", ";", "a", "--", ";", "a", "$!!">>,
   <<"K", ":=", "'s'", "a", "↵", "#1#">>,
   <<">>", "'s'", "a", "+", "b", "*", "2", "'c'", "¶", ">>", "x", "¶">>,
   <<">>">>,
   <<"a", "=", "b", "&&", "x", "||", "!", "f", "(", "1", ")">>,
   <<"a", "=", "(", "1", ",", ")", "↵", "b", "=", "(", "1", ",", "2", ",", "3", ")">>,
   <<"a", "=", "#(", "m", ":", "1", ",", "'s'", ":", "2", ")", ";", "b", "=", "#(", ")">>,
   <<"a", "=", "#", "[", "1", ",", "'s'", "]">>,
   <<"a", "=", "b", ".", "m", "[", "x", "]">>,
   <<"a", "=", "b", "[", "1", ">", "2", "..", "3", "]">>,
   <<"a", "=", "b", "[", "[", "1", ">", "2", "]", "]">>,
   <<"a", "=", "b", "[", "1", ";", "2", "]">>,
   <<"a", "=", "b", "[", "[", "1", ",", "2", "]", ";", "[", "3", "]", "]">>,
   <<"a", "=", "b", "[", "(", "x", "+", "1", ")", ">", "-", "1", "]">>,
   <<"a", "=", "m", "::", "f", "(", "1", ",", "x", "<~", ")">>,
   <<"f", "(", "a", ",", "b", "~", ",", "x", "<~", ")", "{", "↵", "<~", "a", "↵", "}">>,
   <<"f", "(", ")", "{", "↵", "b", "=", "1", ";", "m", "::", "f", "(", ")", "↵", "}">>,
   <<"a", "=", "(", "x", ",", "b", ")", "->", "x", "+", "1">>,
   <<"a", "=", "(", "x", "->", "x", ")", "(", "1", ")">>,
   <<"a", "=", "(", ")", "->", "{", "↵", "<~", "1", "↵", "}">>,
   <<"a", "=", "b", "|>", "f", "|>", "f", "(", "_", ",", "1", ")">>,
   <<"a", "=", "??", "b", "{", "↵", "1", "=>", "'s'", "↵", "2", "..", "3", "||", "-", "1", "=>", "'t'", "↵", "<", "3", "=>", "1", "↵", "#", "#", "K", "(", "m", ")", "=>", "m", "↵", "[", "1", ",", "_", "]", "=>", "2", "↵", "_", "=>", "3", "↵", "}">>,
   <<"??", "b", "{", "↵", "1", "=>", "{", "↵", "a", "++", "↵", "}", "↵", "_", "=>", "{", "↵", "}", "↵", "}">>,
   <<"?", "a", "==", "1", "{", "↵", "b", "=", "1", "↵", "}", "_?", "b", "{", "↵", "b", "=", "2", "↵", "}", "_", "{", "↵", "b", "=", "3", "↵", "}">>,
   <<"@", "a", ":", "1", "..", "3", "{", "↵", "@!", "↵", "}">>,
   <<"@", "(", "a", ",", "b", ")", ":", "m", "{", "↵", "@>", "↵", "}">>,
   <<"@", "#(", "m", ":", "a", ")", ":", "b", "{", "↵", "}", "@", "{", "↵", "}">>,
   <<"@:L", "{", "↵", "@:L!", "↵", "@:L>", "↵", "}">>,
   <<"@", "a", "<", "3", "{", "↵", "a", "++", "↵", "@~", "1", "↵", "}">>,
   <<"!?", "{", "↵", "f", "(", ")", "↵", "}", ":!", "#", "#", "K", "{", "↵", "a", "=", "1", "↵", "}", ":!", "##_", "{", "↵", "}", ":!", "{", "↵", "}", ":>", "{", "↵", "f", "(", ")", "↵", "}">>,
   <<"[", "a", ",", "b", ",", "*", "m", "]", "=", "x", ";", "(", "a", ",", "_", ")", "=", "x">>,
   <<"#(", "m", ":", "a", ",", "x", ":", "b", ")", "=", "f", "(", ")">>,
   <<"\\", "a", ";", "a", "=", "b", "$#", "+", "x", "$?", "1">>,
   <<"a", "$+", "1", ";", "a", "$+[", "1", "]", "2">>,
   <<"a", "$-", "1", ";", "a", "$--", "1", ";", "a", "$-[", "1", "]">>,
   <<"a", "$-[", "1", "..", "2", "]", ";", "a", "$-[", "1", ":", "2", "]">>,
   <<"b", "=", "a", "$??", "1", ";", "a", "[", "1", "]", "$~", "2">>,
   <<"a", "[", "1", ">", "2", "]", "$~", "3">>,
   <<"a", "=", "b", "$[", "1", ":", "x", "+", "1", "]">>,
   <<"a", "=", "b", "$>", "f", "$|", "f", "$<", "(", "1", ",", "f", ")">>,
   <<"a", "=", "b", "$^+", ";", "b", "$^", "(", "x", ",", "m", "->", "x", "<", "m", ")">>,
   <<"a", "=", "b", "$/", "'s'", "$~~", "[", "'s'", ":", "'t'", "]">>,
   <<"a", "=", "'s'", "$++", "a", "b">>,
   <<"a", "=", "b", "$*", "3", ";", "a", "=", "f", "(", "1", ")", "$!", ";", "b", "$!!">>,
   <<"a", "=", "##.", "b", "+", "x">>,
   <<"a", "=", "-", "b", "^", "2", "*", "x">>,
   <<"a", "=", "<\\", "'s'", "b", "\\>", ";", "<\\", "'s'", "\\>">>,
   <<"a", "=", "</x/>", ";", "b", "=", ">>?">>,
   <<"a", "=", "#", "#", "K", "(", "'s'", "b", ")">>,
   <<"a", "=", "1", "..", "3", ":", "2">>,
   <<"<<", "'s'", "a", ";", "<<", "#|", "a", "|", ";", "<<", "##.", "(", "3", ",", "2", ")", "'s'", "a">>,
   <<"<<", "##'", "a", ";", "<<|", "a", ";", "<<|?", "a", ";", "><", "a">>,
   <<">>!", ";", ">>~", "(", "1", ",", ",", "2", ")", ">", "a", "b">>,
   <<">>~", "a", ">", "'s'", "x">>,
   <<">>|", "{", "↵", ">>!", "↵", "}">>,
   <<"a", "=", "(", "b", "$+", "1", ")", "[", "1", "]">>,
   <<"a", "=", "(", "b", "+", "1", ")", "*", "2", "-", "(", "x", "-", "1", ")">>,
   <<"a", "=", "f", "(", "x", "->", "x", ",", "[", "1", ",", "2", "]", ")">>,
   <<"a", "=", "'s'", "↵", "(", "b", ",", "x", ")", "=", "m">>}

\* Sources that print an item followed by a bracket, a parenthesis or a dot:
\* a line broken before it makes it another item (see Folded).
AsTheyAre ==
  {<<">>", "a", "[", "1", "]", "↵", "b", "=", "1">>,
   <<">>", "f", "(", "1", ",", "2", ")", "x", "¶">>,
   <<">>", "'s'", "(", "a", "+", "1", ")", "m", ".", "x">>,
   <<">>", "a", "$#", "m", "::", "f", "(", "1", ")">>}

\* Sources the formatter cannot write back.
Unwritable ==
  {<<"<#", "/", "a", "=>", "x">>,
   <<"#", "m", "{", "↵", "<#", "a", "=>", "x", "↵", "#>", "{", "K", "}", "↵", "<#", "b", "=>", "f", "↵", "K", ":=", "1", "↵", "}">>,
   <<"a", "=", "??", "b", "{", "↵", "#", "#", "K", "(", "_", ")", "=>", "1", "↵", "}">>,
   <<"a", "=", "a", "==", "b", "<", "x">>,
   <<">>", "a", ";", "f", "(", "b", ")">>,
   <<">>", "a", ";", "[", "b", ",", "x", "]", "=", "m">>,
   <<"a", "=", "(", "1", ",", "2", ",", "3", ",", ")">>,
   <<"<<", "##!", "a">>,
   <<">>", "a", "#?", "[", "1", "]">>,
   <<"a", "=", "b", "[", "[", "1", ">", "1", ",", "1", ">", "2", "]", "]">>}

\* A source with one statement the parser refuses, and the source without it.
Mistaken ==
  {<<<<"<#", ".", "/", "2", "=>", "m", "↵", "<#", "a", "=>", "x", "↵", "b", "=", "1">>,
     <<"<#", "a", "=>", "x", "↵", "b", "=", "1">>>>,
   <<<<"m", "[", "1", "]", "[", "2", "]", "↵", "a", "=", "1">>,
     <<"a", "=", "1">>>>,
   <<<<"f", "(", ")", "{", "↵", "a", "[", "2", "]", "=", "3", "↵", "}", "↵", "b", "=", "1">>,
     <<"f", "(", ")", "{", "↵", "}", "↵", "b", "=", "1">>>>,
   <<<<"f", "(", ")", "{", "↵", "?", "m", "[", "1", "]", "[", "1", "]", "==", "1", "{", "↵", "a", "=", "1", "↵", "}", "_", "{", "↵", "b", "=", "2", "↵", "}", "↵", "a", "=", "1", "↵", "}", "↵", "b", "=", "1">>,
     <<"f", "(", ")", "{", "↵", "a", "=", "1", "↵", "}", "↵", "b", "=", "1">>>>,
   <<<<"??", "a", "{", "↵", "1", "'s'", "↵", "_", "=>", "{", "↵", "b", "=", "1", "↵", "}", "↵", "}", "↵", "b", "=", "2">>,
     <<"b", "=", "2">>>>,
   <<<<"?", "a", "{", "↵", "b", "=", "1", "↵", "}", "_?", "{", "↵", "b", "=", "2", "↵", "}", "↵", "b", "=", "3">>,
     <<"b", "=", "3">>>>,
   <<<<"!?", "{", "↵", "a", "=", "1", "↵", "}", ":!", "#", "#", "{", "↵", "b", "=", "1", "↵", "}", "↵", "b", "=", "2">>,
     <<"b", "=", "2">>>>,
   <<<<"@", "a", "{", "↵", "@!", "x", "↵", "b", "++", "↵", "}">>,
     <<"@", "a", "{", "↵", "b", "++", "↵", "}">>>>,
   <<<<"@", "a", "{", "↵", "!", "b", "}", "↵", "b", "=", "1">>,
     <<"@", "a", "{", "↵", "}", "↵", "b", "=", "1">>>>,
   <<<<"f", "(", "1", ")", ".", "m", "↵", "}", "↵", "b", "=", "1">>,
     <<"b", "=", "1">>>>}

MCSources ==
    {Laid(w, TRUE, TRUE) : w \in Anywhere}
      \union {Laid(w, FALSE, TRUE) : w \in AsTheyAre}
      \union {Laid(w, FALSE, FALSE) : w \in Unwritable}
      \union {[Laid(w[1], FALSE, TRUE) EXCEPT !.rest = Lexed(w[2], 1, 1)] : w \in Mistaken}

MCLayouts ==
    [wide : BOOLEAN, long : BOOLEAN, sameLine : {TRUE}, inline : {TRUE}]
      \union [wide : {TRUE}, long : {TRUE}, sameLine : {FALSE}, inline : {FALSE}]

\* Sources that print an item and go on after it.
MCFolded ==
  {Laid(w, TRUE, TRUE) : w \in
  {<<">>", "a", "(", "b", ")">>,
   <<">>", "[", "1", ",", "2", "]", "[", "1", "]">>}}
=============================================================================
