--------------------------- MODULE ViolationFile ---------------------------
(***************************************************************************)
(* The text of a violation file: save of TextFileBasedViolationStore and   *)
(* split_unescaped_lines (src/src/library/freeze/mod.rs).  A text is a     *)
(* sequence of characters, of which only backslash, line feed and carriage *)
(* return are told apart; a violation line is a text.                      *)
(***************************************************************************)
EXTENDS Naturals, Sequences, SequencesExt

Chars == {"x", "\\", "LF", "CR"}

(***************************************************************************)
(* ensure_unix_line_breaks: the CR of every CR LF is dropped, once.        *)
(***************************************************************************)
UnixLineBreaks(text) ==
    FlattenSeq([i \in DOMAIN text |->
        IF text[i] = "CR" /\ i < Len(text) /\ text[i + 1] = "LF" THEN <<>> ELSE <<text[i]>>])

\* Mutant of EscapedLine: embedded line breaks are written as they are.
LineAsIs(line) == line \o <<"LF">>

(***************************************************************************)
(* One line as save writes it: a backslash before every embedded line      *)
(* break, then the line break that ends it.                                *)
(***************************************************************************)
EscapedLine(line) ==
    FlattenSeq([i \in DOMAIN line |-> IF line[i] = "LF" THEN <<"\\", "LF">> ELSE <<line[i]>>])
    \o <<"LF">>

Saved(lines) == FlattenSeq([i \in DOMAIN lines |-> EscapedLine(lines[i])])

(***************************************************************************)
(* split_unescaped_lines: a backslash directly before a line break is      *)
(* dropped and the break kept, any other line break ends a line, and empty *)
(* lines disappear.                                                        *)
(***************************************************************************)
EndLine(acc) ==
    IF acc.current = <<>> THEN acc
    ELSE [lines |-> Append(acc.lines, acc.current), current |-> <<>>]

SplitUnescapedLines(text) ==
    LET Escapes(i) == text[i] = "\\" /\ i < Len(text) /\ text[i + 1] = "LF"
        Read[i \in 0..Len(text)] ==
            IF i = 0 THEN [lines |-> <<>>, current |-> <<>>]
            ELSE LET acc == Read[i - 1] IN
                 IF Escapes(i) THEN acc
                 ELSE IF text[i] = "LF" /\ ~(i > 1 /\ Escapes(i - 1)) THEN EndLine(acc)
                 ELSE [acc EXCEPT !.current = Append(@, text[i])]
    IN EndLine(Read[Len(text)]).lines
=============================================================================
