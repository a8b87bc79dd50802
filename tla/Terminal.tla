------------------------------ MODULE Terminal ------------------------------
(***************************************************************************)
(* `tpp tui`: the reader goroutine that passes on what the terminal sends, *)
(* in pieces that need not be whole key presses, the decoder that holds an *)
(* unfinished escape sequence until a timeout, and the loop that handles   *)
(* one key after the other and redraws a frame that has to fit the screen  *)
(* (src/internal/tui/run.go, src/internal/tui/keys.go).                    *)
(***************************************************************************)
EXTENDS Naturals, Integers, Sequences, SequencesExt

CONSTANTS Presses,     \* the presses of a user: see Bytes
          MaxPresses,
          Ahead,       \* presses that may be typed before the program reads
          Heights,     \* rows of a terminal, 0 when the size is unknown
          Frames,      \* view -> how many lines its frame may have
          Toggles      \* rows of the feature view

Views == {"menu", "status", "features", "plan"}

\* Keys with a meaning, and two without: "home" is a sequence, "x" one byte.
KnownPresses == {"up", "down", "pgup", "pgdn", "home", "esc", "enter", "space", "q", "ctrlc", "x"}

ASSUME TerminalAssumption ==
  /\ Presses \subseteq KnownPresses /\ Ahead \subseteq Seq(KnownPresses)
  /\ Heights \subseteq Nat /\ Frames \in [Views -> SUBSET (Nat \ {0})] /\ Toggles \in Nat

VARIABLES entered,  \* history: the presses so far
          wire,     \* bytes the terminal sent and nobody read
          closed,   \* the input is at its end
          chunk,    \* what the reader holds for the loop: [bytes, last], or NoChunk
          pending,  \* the decoder's unfinished sequence
          keys,     \* decoded and not yet handled
          handled,  \* history: the keys handled
          mode,     \* "on", "planning" while a dry run blocks the loop, or how it ended
          view, menuSel, featureSel,
          frame,    \* lines of the current frame
          scroll, page,
          height,   \* rows of the terminal
          drawn,    \* what was last put on the screen: [rows, lines]
          split     \* history: a timeout or the end of input cut a press in two

inputVars == <<entered, wire, closed, chunk, pending, split>>
screenVars == <<view, menuSel, featureSel, frame, scroll, page, drawn>>
TerminalVars == <<inputVars, keys, handled, mode, screenVars, height>>

NoChunk == [bytes |-> <<>>, last |-> FALSE]

\* Escape sequences are the presses the decoder must not confuse: "E" is ESC.
\* "[" and "O" are never typed alone.
Bytes(press) ==
  CASE press = "up"   -> <<"E", "[", "A">>
    [] press = "down" -> <<"E", "O", "B">>
    [] press = "pgup" -> <<"E", "[", "5", "~">>
    [] press = "pgdn" -> <<"E", "[", "6", "~">>
    [] press = "home" -> <<"E", "[", "H">>
    [] press = "esc"  -> <<"E">>
    [] OTHER          -> <<press>>

\* The bytes of some presses.
Sent(presses) ==
  LET from[i \in 1..(Len(presses) + 1)] ==
        IF i > Len(presses) THEN <<>> ELSE Bytes(presses[i]) \o from[i + 1]
  IN  from[1]

\* The key a press should decode to.
Meant(press) == IF press \in {"home", "x"} THEN "unknown" ELSE press

-----------------------------------------------------------------------------
(* keys.go *)

\* decodeEscape: the key at the start of s and how many bytes it took.
DecodeEscape(s) ==
  LET pageKey == s[3] \in {"5", "6"} /\ s[2] = "[" /\ Len(s) > 3 /\ s[4] = "~"
  IN  IF Len(s) = 1 \/ s[2] \notin {"[", "O"} THEN [key |-> "esc", took |-> 1]
      ELSE IF Len(s) = 2 THEN [key |-> "unknown", took |-> 2]
      ELSE IF s[3] = "A" THEN [key |-> "up", took |-> 3]
      ELSE IF s[3] = "B" THEN [key |-> "down", took |-> 3]
      ELSE IF pageKey THEN [key |-> IF s[3] = "5" THEN "pgup" ELSE "pgdn", took |-> 4]
      ELSE [key |-> "unknown", took |-> 3]

Plain == {"enter", "space", "q", "ctrlc"}

\* decodeComplete: the keys of s from its i-th byte on.
DecodeComplete(s) ==
  LET from[i \in 1..(Len(s) + 1)] ==
        IF i > Len(s) THEN <<>>
        ELSE IF s[i] = "E"
        THEN LET first == DecodeEscape(SubSeq(s, i, Len(s))) IN
             <<first.key>> \o from[i + first.took]
        ELSE <<IF s[i] \in Plain THEN s[i] ELSE "unknown">> \o from[i + 1]
  IN from[1]

\* Mutant of IncompleteEscape: a page key that lacks its last byte is not held.
IncompleteShort(s) == s \in {<<"E">>, <<"E", "[">>, <<"E", "O">>}

\* incompleteEscape: s could still grow into a bound sequence.
IncompleteEscape(s) ==
  s \in {<<"E">>, <<"E", "[">>, <<"E", "O">>, <<"E", "[", "5">>, <<"E", "[", "6">>}

\* decode: the sequence from the last ESC on is held when it is unfinished.
Decode(held, bytes) ==
  LET all == held \o bytes
      last == SelectLastInSeq(all, LAMBDA b : b = "E")
      tail == SubSeq(all, last, Len(all)) IN
  IF last > 0 /\ IncompleteEscape(tail)
  THEN [keys |-> DecodeComplete(SubSeq(all, 1, last - 1)), held |-> tail]
  ELSE [keys |-> DecodeComplete(all), held |-> <<>>]

-----------------------------------------------------------------------------
(* redraw *)

Least(a, b) == IF a < b THEN a ELSE b
Most(a, b) == IF a > b THEN a ELSE b

\* Mutant of Viewport: a whole screen of body lines, and the help below it.
ViewportTall(lines, offset, rows) ==
  IF rows <= 0 \/ lines <= rows THEN [lines |-> lines, scroll |-> 0, page |-> lines]
  ELSE [lines |-> rows + 1, scroll |-> Least(Most(offset, 0), lines - 1 - rows), page |-> rows]

\* viewport: how many lines are drawn, the offset within range, the page.
Viewport(lines, offset, rows) ==
  IF rows <= 0 \/ lines <= rows THEN [lines |-> lines, scroll |-> 0, page |-> lines]
  ELSE LET fits == Most(rows - 1, 1) IN
       [lines |-> fits + 1, scroll |-> Least(Most(offset, 0), lines - 1 - fits), page |-> fits]

\* The frame is drawn from an offset; the clamped offset and the page stay.  A
\* write that fails ends the loop.
Redraw(lines, offset) ==
  LET shown == Viewport(lines, offset, height) IN
  /\ frame' = lines
  /\ scroll' = shown.scroll /\ page' = shown.page
  /\ drawn' = [rows |-> height, lines |-> shown.lines]
  /\ mode' \in {"on", "failed"}

\* What is drawn before a dry run blocks the loop: three lines, on any screen.
Acknowledgement == 3

TerminalInit ==
  /\ entered \in Ahead /\ wire = Sent(entered) /\ closed = FALSE
  /\ chunk = NoChunk /\ pending = <<>> /\ split = FALSE
  /\ keys = <<>> /\ handled = <<>> /\ mode \in {"on", "failed"}
  /\ view = "menu" /\ menuSel = 0 /\ featureSel = 0
  /\ height \in Heights /\ frame \in Frames["menu"]
  /\ LET shown == Viewport(frame, 0, height) IN
     /\ scroll = shown.scroll /\ page = shown.page
     /\ drawn = [rows |-> height, lines |-> shown.lines]

-----------------------------------------------------------------------------
(* The user and the terminal. *)

Running == mode \in {"on", "planning"}

Press ==
  /\ Running /\ Len(entered) < MaxPresses /\ ~closed
  /\ \E p \in Presses : entered' = Append(entered, p) /\ wire' = wire \o Bytes(p)
  /\ UNCHANGED <<closed, chunk, pending, split, keys, handled, mode, screenVars, height>>

Close ==
  /\ Running /\ ~closed /\ closed' = TRUE
  /\ UNCHANGED <<entered, wire, chunk, pending, split, keys, handled, mode, screenVars, height>>

\* Nothing is redrawn for it.
Resize ==
  /\ Running /\ \E h \in Heights : height' = h
  /\ UNCHANGED <<inputVars, keys, handled, mode, screenVars>>

-----------------------------------------------------------------------------
(* readLoop and the select of Run. *)

\* A read returns any part of what is there; the reader waits until the loop
\* has taken it.
ReadLoop ==
  /\ chunk = NoChunk /\ Running
  /\ \/ \E n \in 1..Len(wire) :
          /\ chunk' = [bytes |-> SubSeq(wire, 1, n), last |-> FALSE]
          /\ wire' = SubSeq(wire, n + 1, Len(wire))
     \/ wire = <<>> /\ closed /\ chunk' = [NoChunk EXCEPT !.last = TRUE] /\ UNCHANGED wire
  /\ UNCHANGED <<entered, closed, pending, split, keys, handled, mode, screenVars, height>>

\* The press the held bytes belong to was not complete when they were flushed.
Cuts(held, before) ==
  held # <<>> /\ (Len(before) >= Len(entered) \/ Bytes(entered[Len(before) + 1]) # held)

Waits == keys = <<>> /\ mode = "on"

TakeChunk ==
  /\ Waits /\ chunk # NoChunk
  /\ LET got == Decode(pending, chunk.bytes) IN
     IF chunk.last
     THEN /\ keys' = got.keys \o DecodeComplete(got.held) \o <<"eof">>
          /\ pending' = <<>> /\ split' = (split \/ Cuts(got.held, handled \o got.keys))
     ELSE keys' = got.keys /\ pending' = got.held /\ UNCHANGED split
  /\ chunk' = NoChunk
  /\ UNCHANGED <<entered, wire, closed, handled, mode, screenVars, height>>

\* Mutant of Flush: a lone ESC waits for the byte after it.
FlushSequence ==
  /\ Waits /\ Len(pending) > 1
  /\ keys' = DecodeComplete(pending) /\ pending' = <<>>
  /\ split' = (split \/ Cuts(pending, handled))
  /\ UNCHANGED <<entered, wire, closed, chunk, handled, mode, screenVars, height>>

\* escWait is over: it may end although the rest of the press has arrived.
Flush ==
  /\ Waits /\ pending # <<>>
  /\ keys' = DecodeComplete(pending) /\ pending' = <<>>
  /\ split' = (split \/ Cuts(pending, handled))
  /\ UNCHANGED <<entered, wire, closed, chunk, handled, mode, screenVars, height>>

-----------------------------------------------------------------------------
(* handle, then redraw. *)

\* Takes the next key, if it is one of these.
Takes(ks) ==
  /\ keys # <<>> /\ mode = "on" /\ Head(keys) \in ks
  /\ keys' = Tail(keys)
  /\ handled' = IF Head(keys) = "eof" THEN handled ELSE Append(handled, Head(keys))
  /\ UNCHANGED <<inputVars, height>>

AllKeys == {"up", "down", "pgup", "pgdn", "enter", "esc", "space", "unknown"}

Quit ==
  /\ \/ Takes({"q", "ctrlc", "eof"})
     \/ view = "menu" /\ Takes({"esc"})
     \/ view = "menu" /\ menuSel = 3 /\ Takes({"enter"})
  /\ mode' = IF Head(keys) = "eof" THEN "failed" ELSE "quit"
  /\ UNCHANGED screenVars

HandleMenu ==
  /\ view = "menu" /\ (keys # <<>> /\ Head(keys) = "enter" => menuSel < 3)
  /\ Takes(AllKeys \ {"esc"})
  /\ menuSel' = CASE Head(keys) = "up" -> Most(menuSel - 1, 0)
                  [] Head(keys) = "down" -> Least(menuSel + 1, 3)
                  [] OTHER -> menuSel
  /\ IF Head(keys) # "enter" THEN UNCHANGED <<view, featureSel>> /\ Redraw(frame, scroll)
     ELSE /\ view' = <<"status", "features", "plan">>[menuSel + 1]
          /\ featureSel' = IF menuSel = 1 THEN 0 ELSE featureSel
          /\ IF menuSel = 2
             THEN /\ mode' = "planning" /\ scroll' = 0
                  /\ drawn' = [rows |-> height, lines |-> Acknowledgement]
                  /\ UNCHANGED <<frame, page>>
             ELSE \E n \in Frames[view'] : Redraw(n, 0)

\* The dry run is back and its view is drawn; no key was handled meanwhile.
Planned ==
  /\ mode = "planning"
  /\ \E n \in Frames["plan"] : Redraw(n, scroll)
  /\ UNCHANGED <<inputVars, keys, handled, height, view, menuSel, featureSel>>

\* Back to the menu, which keeps the offset of the view that was left.
Leave ==
  /\ view # "menu" /\ Takes({"esc"})
  /\ view' = "menu" /\ (\E n \in Frames["menu"] : Redraw(n, scroll))
  /\ UNCHANGED <<menuSel, featureSel>>

\* Enter and space change the frame: a preview or an error below the rows, a
\* toggled row.
HandleFeatures ==
  /\ view = "features" /\ Takes(AllKeys \ {"esc"})
  /\ featureSel' = CASE Head(keys) = "up" -> Most(featureSel - 1, 0)
                     [] Head(keys) = "down" /\ featureSel < Toggles - 1 -> featureSel + 1
                     [] OTHER -> featureSel
  /\ IF Head(keys) \in {"enter", "space"} /\ featureSel < Toggles
     THEN \E n \in Frames["features"] : Redraw(n, scroll) ELSE Redraw(frame, scroll)
  /\ UNCHANGED <<view, menuSel>>

\* Mutant of PageStep: a whole screen, with the line below the help.
PageStepTall == Most(page, 1) + 1

PageStep == Most(page, 1)

HandleScroll ==
  /\ view \in {"status", "plan"} /\ Takes(AllKeys \ {"esc"})
  /\ Redraw(frame, scroll + CASE Head(keys) = "up" -> 0 - 1
                              [] Head(keys) = "down" -> 1
                              [] Head(keys) = "pgup" -> 0 - PageStep
                              [] Head(keys) \in {"pgdn", "space"} -> PageStep
                              [] OTHER -> 0)
  /\ UNCHANGED <<view, menuSel, featureSel>>

Handle == Quit \/ HandleMenu \/ Leave \/ HandleFeatures \/ HandleScroll

TerminalNext == Press \/ Close \/ Resize \/ ReadLoop \/ TakeChunk \/ Flush \/ Handle \/ Planned

\* The reader and the loop are goroutines that run, the timer of the loop fires, and a
\* dry run, which walks the managed files, comes back.
TerminalFairness ==
  WF_TerminalVars(ReadLoop) /\ WF_TerminalVars(TakeChunk \/ Flush \/ Handle \/ Planned)

TerminalSpec == TerminalInit /\ [][TerminalNext]_TerminalVars

-----------------------------------------------------------------------------
(* Properties. *)

\* The keys that wait for the loop; the end of the input is the last of them.
Decoded == IF keys # <<>> /\ keys[Len(keys)] = "eof" THEN SubSeq(keys, 1, Len(keys) - 1) ELSE keys

\* However the bytes are cut into reads, the keys decoded so far are the
\* presses made so far, in order, and the bytes on their way are those of the
\* presses after them: no press is lost, doubled or read as others, unless
\* the timeout or the end of the input came inside a press.
KeysInOrder ==
  ~split =>
    LET got == handled \o Decoded IN
    /\ Len(got) <= Len(entered)
    /\ \A i \in DOMAIN got : got[i] = Meant(entered[i])
    /\ pending \o chunk.bytes \o wire = Sent(SubSeq(entered, Len(got) + 1, Len(entered)))

\* What is on the screen while the loop waits for a key fits the terminal it was
\* drawn on, from two rows on; one row gets the first of the body and the help,
\* two lines.  Only the acknowledgement of a dry run may be taller than its
\* screen, as long as the dry run takes (redraw, viewport, handleMenu).  The
\* offset stays within the body, whatever size the terminal had before.
ScreenFits ==
  /\ drawn.rows > 0 =>
       drawn.lines <= Most(drawn.rows, IF mode = "planning" THEN Acknowledgement ELSE 2)
  /\ scroll >= 0 /\ scroll + page <= frame
  /\ drawn.lines >= 1

\* A key that scrolls skips no line: what it shows touches what was shown before it,
\* so that a report can be read from end to end, on a terminal that was resized in
\* between too.  A page up is by the page of the last redraw and may skip lines
\* when the terminal has become smaller since (handleScroll, redraw).
Scrolls ==
  /\ view \in {"status", "plan"} /\ view' = view /\ handled' # handled
  /\ height < drawn.rows => Head(keys) # "pgup"
NoLineIsSkipped ==
  [][Scrolls => scroll' <= scroll + page /\ scroll <= scroll' + page']_TerminalVars

\* The loop has caught up with the user or has ended.
CaughtUp == Len(handled) >= Len(entered) \/ ~Running
=============================================================================
