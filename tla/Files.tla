-------------------------------- MODULE Files -------------------------------
(***************************************************************************)
(* The builtin tools that read, edit and write a file (fs.rs file_read,    *)
(* file_edit, file_write), called at the same time by agents that share a  *)
(* workspace.                                                              *)
(*                                                                         *)
(* A content is a sequence of tokens: newlines, blanks and letters.  Each  *)
(* call works off the async threads, one file-system call per step; once   *)
(* it has begun, nothing but the death of the process stops it.  A file is *)
(* read in one step.  Modes and the choice of path are left out.           *)
(***************************************************************************)
EXTENDS Integers, SequencesExt

CONSTANTS
  Editor,       \* calls that may be made, one each
  Edits,       \* the pairs <<old, new>> file_edit is called with
  Contents,    \* the contents file_write is called with
  FirstFile,   \* the content of the file before
  MaxReadLines \* MAX_READ_LINES

ASSUME FilesAssumption == MaxReadLines \in Nat \ {0}

Token == UNION {ToSet(content) : content \in Contents}
ASSUME ContentsAssumption == Contents \subseteq Seq(Token)

VARIABLES
  file,   \* the content at the path
  temp,   \* the sibling temp file of each call: nothing or <<content>>
  call,   \* what each call is doing, and with which text
  whole,  \* history: every content that was written or put at the path to its end
  laid,   \* history: what file_write has written to the file, in full or in part,
          \* since it was emptied or replaced
  torn    \* history: the calls of file_write that stopped in the middle since then

fvars == <<file, temp, call, whole, laid, torn>>

NewLine == "\n"

-----------------------------------------------------------------------------
(* file_read.                                                              *)

\* The lines ended so far and the one begun, with one more character.
SplitAt(seen, c) ==
  IF c = NewLine THEN [done |-> Append(seen.done, seen.line), line |-> <<>>]
  ELSE [seen EXCEPT !.line = Append(@, c)]

Splits(content) ==
  LET cut[k \in 0..Len(content)] ==
        IF k = 0 THEN [done |-> <<>>, line |-> <<>>] ELSE SplitAt(cut[k - 1], content[k])
  IN cut

\* str::lines: a newline ends a line, and the last line may do without.
Lines(content) ==
  LET cut == Splits(content)[Len(content)]
  IN IF cut.line = <<>> THEN cut.done ELSE Append(cut.done, cut.line)

TrimEnd(line) ==
  LET kept == {i \in DOMAIN line : line[i] # " "}
  IN SubSeq(line, 1, IF kept = {} THEN 0 ELSE CHOOSE i \in kept : \A j \in kept : j <= i)

\* Mutant: the note names the line after the next one.
Page_NoteSkips(content, offset, limit) ==
  LET lines == Lines(content)
      total == Len(lines)
      want == IF limit < MaxReadLines THEN limit ELSE MaxReadLines
      last == IF offset - 1 + want < total THEN offset - 1 + want ELSE total
  IN IF total = 0 \/ offset > total THEN [shown |-> <<>>, next |-> 0]
     ELSE [shown |-> [i \in 1..(last - offset + 1) |-> <<offset - 1 + i, lines[offset - 1 + i]>>],
           next  |-> IF last < total THEN last + 2 ELSE 0]

\* format_with_line_numbers, with an offset of at least 1: the numbered lines and
\* the offset its note names, 0 when there is no note.  Without a note the end of
\* the text is trimmed.
Page(content, offset, limit) ==
  LET lines == Lines(content)
      total == Len(lines)
      want == IF limit < MaxReadLines THEN limit ELSE MaxReadLines
      last == IF offset - 1 + want < total THEN offset - 1 + want ELSE total
      line(n) == IF n = total THEN TrimEnd(lines[n]) ELSE lines[n]
  IN IF total = 0 \/ offset > total THEN [shown |-> <<>>, next |-> 0]
     ELSE [shown |-> [i \in 1..(last - offset + 1) |-> <<offset - 1 + i, line(offset - 1 + i)>>],
           next  |-> IF last < total THEN last + 1 ELSE 0]

-----------------------------------------------------------------------------
(* The arithmetic of file_edit.                                            *)

OccursAt(content, old, i) ==
  i + Len(old) - 1 <= Len(content) /\ SubSeq(content, i, i + Len(old) - 1) = old

\* match_line_numbers, as positions: from the left, none overlapping another.
MatchAt(content, old, found, i) ==
  IF OccursAt(content, old, i) /\ (found = <<>> \/ i >= Last(found) + Len(old))
  THEN Append(found, i) ELSE found

Matched(content, old) ==
  LET found[k \in 0..Len(content)] ==
        IF k = 0 THEN <<>> ELSE MatchAt(content, old, found[k - 1], k)
  IN found
Matches(content, old) == Matched(content, old)[Len(content)]

NewLinesIn(text) == Cardinality({j \in DOMAIN text : text[j] = NewLine})

LineOf(content, i) == NewLinesIn(SubSeq(content, 1, i - 1)) + 1

\* Mutant: the first of several occurrences will do.
EditFault_First(content, old, new) ==
  CASE old = <<>>                  -> "empty"
    [] old # <<>> /\ old = new     -> "noop"
    [] OTHER -> IF Matches(content, old) = <<>> THEN "not found" ELSE "none"

\* compute_edit, when it refuses.
EditFault(content, old, new) ==
  CASE old = <<>>                  -> "empty"
    [] old # <<>> /\ old = new     -> "noop"
    [] OTHER -> LET found == Matches(content, old)
                IN IF found = <<>> THEN "not found"
                   ELSE IF Len(found) > 1 THEN "ambiguous" ELSE "none"

\* compute_edit, when it does not.
Edited(content, old, new) ==
  LET i == Matches(content, old)[1]
  IN [content |-> SubSeq(content, 1, i - 1) \o new \o SubSeq(content, i + Len(old), Len(content)),
      line    |-> LineOf(content, i)]

\* The region shown after an edit.
Snippet(content, line, new) ==
  Page(content, IF line > 3 THEN line - 2 ELSE 1,
       NewLinesIn(new) + 5)

-----------------------------------------------------------------------------
(* The calls.                                                              *)

NoCall == [at |-> "idle", new |-> <<>>]
NoCallYet == \A c \in Editor : call[c] = NoCall

InitFiles ==
  /\ file = FirstFile
  /\ temp = [c \in Editor |-> <<>>]
  /\ call = [c \in Editor |-> NoCall]
  /\ whole = {FirstFile} /\ laid = {} /\ torn = {}

Goes(c, at, new) == call' = [call EXCEPT ![c] = [at |-> at, new |-> new]]
Is(c, at) == call[c].at = at
Fails(c) == Goes(c, "refused", <<>>)

\* file_edit reads the file and works out all of its new content.
EditReads(c) ==
  /\ Is(c, "idle")
  /\ \E e \in Edits :
       IF EditFault(file, e[1], e[2]) # "none" THEN Fails(c)
       ELSE Goes(c, "computed", Edited(file, e[1], e[2]).content)
  /\ UNCHANGED <<file, temp, whole, laid, torn>>

EditOpensTemp(c) ==
  /\ Is(c, "computed")
  /\ \/ /\ temp' = [temp EXCEPT ![c] = <<<<>>>>]
        /\ Goes(c, "opened", call[c].new)
     \/ /\ Fails(c)
        /\ UNCHANGED temp
  /\ UNCHANGED <<file, whole, laid, torn>>

\* Mutant: the temp file is put in place whatever became of the write.
WrittenTo_Unchecked(c) == Goes(c, "written", call[c].new)

\* What becomes of a call whose write of the temp file failed half-way.
WrittenTo(c) == Fails(c)

EditWritesTemp(c) ==
  /\ Is(c, "opened")
  /\ \/ /\ temp' = [temp EXCEPT ![c] = <<call[c].new>>]
        /\ Goes(c, "written", call[c].new)
     \/ \E k \in 0..(Len(call[c].new) - 1) :
          /\ temp' = [temp EXCEPT ![c] = <<SubSeq(call[c].new, 1, k)>>]
          /\ WrittenTo(c)
  /\ UNCHANGED <<file, whole, laid, torn>>

\* The rename puts it in the place of the file, so that a file_write that has the
\* old one open writes where nobody looks; when it fails, the temp file is removed
\* as far as that is possible.
EditRenames(c) ==
  /\ Is(c, "written")
  /\ \/ /\ file' = temp[c][1]
        /\ whole' = whole \cup {call[c].new}
        /\ laid' = {} /\ torn' = {}
        /\ temp' = [temp EXCEPT ![c] = <<>>]
        /\ call' = [d \in Editor |->
                      IF d = c THEN [call[c] EXCEPT !.at = "done"]
                      ELSE IF Is(d, "emptied") THEN [call[d] EXCEPT !.at = "detached"]
                      ELSE call[d]]
     \/ /\ Fails(c)
        /\ \/ temp' = [temp EXCEPT ![c] = <<>>]
           \/ UNCHANGED temp
        /\ UNCHANGED <<file, whole, laid, torn>>

\* fs::write empties the file first, or fails to open it.
WriteOpens(c) ==
  /\ Is(c, "idle")
  /\ \/ /\ \E content \in Contents : Goes(c, "emptied", content)
        /\ file' = <<>>
        /\ laid' = {} /\ torn' = {}
     \/ /\ Fails(c)
        /\ UNCHANGED <<file, laid, torn>>
  /\ UNCHANGED <<temp, whole>>

\* Mutant: the file was opened to append.
Over_Appends(text) == file \o text

\* It then writes from the beginning, over what another call has written since: the
\* longer of two leaves its end there.
Over(text) == text \o SubSeq(file, Len(text) + 1, Len(file))

WriteFills(c) ==
  /\ Is(c, "emptied")
  /\ \/ /\ file' = Over(call[c].new)
        /\ whole' = whole \cup {call[c].new}
        /\ Goes(c, "done", call[c].new)
        /\ UNCHANGED torn
     \/ /\ \E k \in 0..(Len(call[c].new) - 1) : file' = Over(SubSeq(call[c].new, 1, k))
        /\ torn' = torn \cup {c}
        /\ Fails(c)
        /\ UNCHANGED whole
  /\ laid' = laid \cup {call[c].new}
  /\ UNCHANGED temp

\* What it fills is no longer the file; it is told of success all the same.
WriteFillsDetached(c) ==
  /\ Is(c, "detached")
  /\ \/ Goes(c, "done", call[c].new)
     \/ Fails(c)
  /\ UNCHANGED <<file, temp, whole, laid, torn>>

\* The process dies: whatever was under way stays as it is.
ToolsDie ==
  /\ \E c \in Editor : call[c].at \notin {"died", "done", "refused", "idle"}
  /\ torn' = torn \cup {c \in Editor : Is(c, "emptied")}
  /\ call' = [c \in Editor |-> IF call[c].at \in {"done", "refused"} THEN call[c]
                                ELSE [NoCall EXCEPT !.at = "died"]]
  /\ UNCHANGED <<file, temp, whole, laid>>

NextFiles ==
  \/ \E c \in Editor :
       \/ EditReads(c) \/ EditOpensTemp(c) \/ EditWritesTemp(c) \/ EditRenames(c)
       \/ WriteOpens(c) \/ WriteFills(c) \/ WriteFillsDetached(c)
  \/ ToolsDie

FilesSpec == InitFiles /\ [][NextFiles]_fvars

-----------------------------------------------------------------------------
(* Properties.                                                             *)

\* Nothing but what calls of file_write have written since the file was emptied,
\* each where it had it.
Overlaid == \A i \in DOMAIN file : \E new \in laid : i \in DOMAIN new /\ file[i] = new[i]

\* Whatever fails and whenever the process dies, an edit never leaves the file cut
\* short or mixed with another ("so a failure mid-write never leaves the file
\* truncated", file_edit): the file is a complete content somebody computed or
\* wrote, unless one file_write stopped or is in the middle, or several that had
\* it open together wrote different contents.  Then it is what they wrote, one over
\* another, until the next edit or file_write puts a complete content there.
EditsAreAtomic ==
  /\ file \in whole \/ Overlaid
  /\ (\A c \in Editor : ~Is(c, "emptied")) /\ torn = {} /\ (\A m, n \in laid : m = n)
       => file \in whole

\* What is read from an offset on by following the notes.
ReadThrough(content, limit) ==
  LET read[offset \in 0..Len(Lines(content)) + 1] ==
        IF offset = 0 THEN <<>>
        ELSE LET page == Page(content, offset, limit) IN page.shown \o read[page.next]
  IN read

\* Whoever follows the notes sees every line once, in order and to the letter, but
\* for blanks at the very end (format_with_line_numbers).
PagesTellAll(content, limit) ==
  ReadThrough(content, limit)[1] =
    LET lines == Lines(content)
    IN [n \in DOMAIN lines |-> <<n, IF n = Len(lines) THEN TrimEnd(lines[n]) ELSE lines[n]>>]

Occurrences(content, old) == {i \in DOMAIN content : OccursAt(content, old, i)}

\* An edit replaces one occurrence and nothing else, is refused when there are two
\* that do not overlap, and shows every line it has put in, or as many as fit on a
\* page that begins two lines before (compute_edit).
EditIsExact(content, old, new) ==
  LET places == Occurrences(content, old)
      apart == \E i, j \in places : j >= i + Len(old)
      made == Edited(content, old, new)
      shown == Snippet(made.content, made.line, new).shown
  IN CASE old = <<>> \/ old = new -> EditFault(content, old, new) \in {"empty", "noop"}
       [] old \notin {<<>>, new} /\ (apart \/ places = {}) ->
            EditFault(content, old, new) = IF apart THEN "ambiguous" ELSE "not found"
       [] OTHER ->
            /\ EditFault(content, old, new) = "none"
            /\ \E i \in places :
                 /\ made.content = SubSeq(content, 1, i - 1) \o new
                                     \o SubSeq(content, i + Len(old), Len(content))
                 /\ made.line = Len(Lines(Append(SubSeq(content, 1, i - 1), "a")))
            /\ \A n \in made.line..(made.line + Len(Lines(Append(new, "a"))) - 1) :
                 n <= Len(Lines(made.content)) /\ n < made.line + MaxReadLines - 2
                   => \E k \in DOMAIN shown : shown[k][1] = n
=============================================================================
