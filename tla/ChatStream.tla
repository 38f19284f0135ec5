----------------------------- MODULE ChatStream ------------------------------
(***************************************************************************)
(* The summary of a search result, from the button of a row (Result of     *)
(* ui/src/Search.tsx) through Chat of ui/src/api/chat.ts, the handler of   *)
(* /api/chat (server/chat.go) and the pipe to the goroutine that reads the *)
(* provider's stream (ChatStream of ai/ollama/chat.go, ai/openai/chat.go)  *)
(* and back.  The provider's lines carry one character or none; characters *)
(* are numbered in the order they are generated and are two bytes long.    *)
(***************************************************************************)
EXTENDS HttpClients

CONSTANTS
    Chats,          \* requests to the provider that are chats
    MaxEmpty,       \* empty reads bufio gives up after
    MaxLines,       \* bound on the lines of an answer
    MaxTries,       \* bound on the chats a row starts, and on other requests
    ErrorText,      \* "Error reading stream", "Failed to initialize chat"
    Failure,        \* String(err)
    Garbled         \* what a decoder makes of half a character

ASSUME ChatAssumption ==
    /\ Chats \subseteq Requests
    /\ MaxEmpty \in Nat \ {0}
    /\ {MaxLines, MaxTries} \subseteq Nat

VARIABLES
    summaryEnabled, loading, summary,   \* the row
    received,       \* bytes the browser has read
    handler,        \* ChatHttp: "idle", "called", "reading" or "done"
    relayed,        \* characters the handler has written
    empties,        \* empty reads in a row
    goroutine,      \* that of ChatStream
    line,           \* the character it is writing to the pipe, 0 for none
    pipe,           \* "open", or closed with an "error", or with "eof"
    generated,      \* characters the provider has generated
    lines, tries,   \* counters, for the bounds
    provider,       \* "talking", has said it is "done", or "broke" off
    broken,         \* the connection of browser and server is broken
    hangs           \* chats whose provider may stop without a word; fixed

row == <<summaryEnabled, loading, summary, received, tries>>
served == <<handler, relayed, empties, pipe, broken>>
asked == <<generated, lines, provider>>
vars == <<http, row, served, asked, goroutine, line, hangs>>

At(f, c, value) == [f EXCEPT ![c] = value]

Init ==
    /\ HttpInit
    /\ summaryEnabled = [c \in Chats |-> FALSE]
    /\ loading = [c \in Chats |-> FALSE]
    /\ summary = [c \in Chats |-> <<>>]
    /\ received = [c \in Chats |-> 0]
    /\ handler = [c \in Chats |-> "idle"]
    /\ relayed = [c \in Chats |-> <<>>]
    /\ empties = [c \in Chats |-> 0]
    /\ goroutine = [c \in Chats |-> "idle"]
    /\ line = [c \in Chats |-> 0]
    /\ pipe = [c \in Chats |-> "open"]
    /\ generated = [c \in Chats |-> 0]
    /\ lines = [c \in Chats |-> 0]
    /\ tries = [r \in Requests |-> 0]
    /\ provider = [c \in Chats |-> "talking"]
    /\ broken = [c \in Chats |-> FALSE]
    /\ hangs \in SUBSET Chats

(***************************************************************************)
(* The row and the browser.                                                *)
(***************************************************************************)
\* handleSummaryToggle: the button is disabled while loading, and a summary
\* that has come, whatever it says, is not asked for again.
Toggle(c) ==
    /\ ~loading[c]
    /\ summaryEnabled[c] \/ summary[c] # <<>>
    /\ summaryEnabled' = At(summaryEnabled, c, ~summaryEnabled[c])
    /\ UNCHANGED <<hangs, http, loading, summary, received, tries, served, asked,
                   goroutine, line>>

Ask(c) ==
    /\ ~loading[c] /\ ~summaryEnabled[c] /\ summary[c] = <<>>
    /\ tries[c] < MaxTries
    /\ summaryEnabled' = At(summaryEnabled, c, TRUE)
    /\ loading' = At(loading, c, TRUE)
    /\ received' = At(received, c, 0)
    /\ handler' = At(handler, c, "called")
    /\ relayed' = At(relayed, c, <<>>)
    /\ empties' = At(empties, c, 0)
    /\ pipe' = At(pipe, c, "open")
    /\ generated' = At(generated, c, 0)
    /\ lines' = At(lines, c, 0)
    /\ provider' = At(provider, c, "talking")
    /\ tries' = At(tries, c, tries[c] + 1)
    /\ UNCHANGED <<hangs, http, summary, broken, goroutine, line>>

\* (mutant) each chunk is decoded on its own
DecodedAlone(c, n) ==
    (IF received[c] % 2 = 1 THEN <<Garbled>> ELSE <<>>)
      \o SubSeq(relayed[c], (received[c] + 1) \div 2 + 1, n \div 2)
      \o (IF n % 2 = 1 THEN <<Garbled>> ELSE <<>>)

\* decoder.decode(value, { stream: true }) keeps half a character for later.
Decoded(c, n) == SubSeq(relayed[c], received[c] \div 2 + 1, n \div 2)

\* reader.read: the next bytes, as many as have come, or fewer.
Read(c, n) ==
    /\ loading[c] /\ ~broken[c]
    /\ n \in received[c] + 1 .. 2 * Len(relayed[c])
    /\ summary' = At(summary, c, summary[c] \o Decoded(c, n))
    /\ received' = At(received, c, n)
    /\ UNCHANGED <<hangs, http, summaryEnabled, loading, tries, served, asked, goroutine,
                   line>>

\* The end of the body: break, and finally completed().  The status of the
\* answer is not looked at.
Completed(c) ==
    /\ loading[c] /\ ~broken[c]
    /\ handler[c] = "done"
    /\ received[c] = 2 * Len(relayed[c])
    /\ loading' = At(loading, c, FALSE)
    /\ UNCHANGED <<hangs, http, summaryEnabled, summary, received, tries, served, asked,
                   goroutine, line>>

\* (mutant) completed() after the loop and not in finally
LoadingStays(c) == loading[c]

LoadingAfter(c) == FALSE

\* The connection breaks: fetch or read rejects, and the text of the error
\* takes the place of what has been shown.
Breaks(c) ==
    /\ loading[c] /\ ~broken[c]
    /\ broken' = At(broken, c, TRUE)
    /\ summary' = At(summary, c, <<Failure>>)
    /\ loading' = At(loading, c, LoadingAfter(c))
    /\ UNCHANGED <<hangs, http, summaryEnabled, received, tries, handler, relayed,
                   empties, pipe, asked, goroutine, line>>

(***************************************************************************)
(* The handler.                                                            *)
(***************************************************************************)
Begin(c) ==
    /\ handler[c] = "called"
    /\ handler' = At(handler, c, "reading")
    /\ goroutine' = At(goroutine, c, "start")
    /\ UNCHANGED <<hangs, http, row, relayed, empties, pipe, broken, asked, line>>

\* The documents cannot be read.
BeginFails(c) ==
    /\ handler[c] = "called"
    /\ handler' = At(handler, c, "done")
    /\ relayed' = At(relayed, c, <<ErrorText>>)
    /\ UNCHANGED <<hangs, http, row, empties, pipe, broken, asked, goroutine, line>>

\* The goroutine leaves its loop after the line that says it is the last.
Written(c) ==
    /\ goroutine' = At(goroutine, c, IF provider[c] = "done" THEN "end" ELSE "scan")
    /\ line' = At(line, c, 0)

\* A write to the pipe and a read from it happen together.  A write of nothing
\* is a read of nothing, and bufio.Reader counts those.
RelayChar(c) ==
    /\ line[c] # 0
    /\ relayed' = At(relayed, c, Append(relayed[c], line[c]))
    /\ empties' = At(empties, c, 0)
    /\ UNCHANGED handler

RelayNothing(c) ==
    /\ line[c] = 0
    /\ empties[c] + 1 < MaxEmpty
    /\ empties' = At(empties, c, empties[c] + 1)
    /\ UNCHANGED <<relayed, handler>>

\* io.ErrNoProgress: the handler ends although the stream goes on.
GiveUp(c) ==
    /\ line[c] = 0
    /\ empties[c] + 1 = MaxEmpty
    /\ relayed' = At(relayed, c, Append(relayed[c], ErrorText))
    /\ handler' = At(handler, c, "done")
    /\ UNCHANGED empties

\* io.WriteString fails.
WriteFails(c) ==
    /\ broken[c]
    /\ handler' = At(handler, c, "done")
    /\ UNCHANGED <<relayed, empties>>

Relay(c) ==
    /\ handler[c] = "reading"
    /\ goroutine[c] = "write"
    /\ RelayChar(c) \/ RelayNothing(c) \/ GiveUp(c) \/ WriteFails(c)
    /\ Written(c)
    /\ UNCHANGED <<hangs, http, row, pipe, broken, asked>>

\* The pipe is closed on the other side, with or without an error.
PipeEnds(c) ==
    /\ handler[c] = "reading"
    /\ pipe[c] # "open"
    /\ relayed' = IF pipe[c] = "eof" THEN relayed
                  ELSE At(relayed, c, Append(relayed[c], ErrorText))
    /\ handler' = At(handler, c, "done")
    /\ UNCHANGED <<hangs, http, row, empties, pipe, broken, asked, goroutine, line>>

(***************************************************************************)
(* The goroutine of ChatStream.  ctx is that of the request: it ends when  *)
(* the connection breaks and when the handler returns.                     *)
(***************************************************************************)
ctxDone(c) == broken[c] \/ handler[c] = "done"

\* Url, GetHttpClient; and, deferred, close and uriDone.
UsesHttp(c) ==
    /\ \/ goroutine[c] = "start" /\ at[c] \in {"out", "lookup", "admit", "create"}
       \/ goroutine[c] = "end" /\ at[c] \in {"in", "leave"}
    /\ HttpStep(c)
    /\ UNCHANGED <<hangs, row, served, asked, goroutine, line>>

Fails(c) ==
    /\ pipe' = At(pipe, c, "error")
    /\ goroutine' = At(goroutine, c, "end")
    /\ provider' = At(provider, c, "broke")
    /\ UNCHANGED <<hangs, http, row, handler, relayed, empties, broken, generated, lines,
                   line>>

\* client.Do
Send(c) ==
    /\ goroutine[c] = "start" /\ at[c] = "in"
    /\ goroutine' = At(goroutine, c, "scan")
    /\ UNCHANGED <<hangs, http, row, served, asked, line>>

SendFails(c) ==
    /\ goroutine[c] = "start" /\ at[c] = "in"
    /\ Fails(c)

\* (mutant) the loop is left before the content of the last line is written
NotWritten(last) == IF last THEN "end" ELSE "write"

ThenWrite(last) == "write"

\* scanner.Scan finds a line, with a character or without.
Line(c, text, last) ==
    /\ goroutine[c] = "scan"
    /\ lines[c] < MaxLines
    /\ goroutine' = At(goroutine, c, ThenWrite(last))
    /\ line' = At(line, c, IF text THEN generated[c] + 1 ELSE 0)
    /\ generated' = At(generated, c, generated[c] + (IF text THEN 1 ELSE 0))
    /\ lines' = At(lines, c, lines[c] + 1)
    /\ provider' = At(provider, c, IF last THEN "done" ELSE "talking")
    /\ UNCHANGED <<hangs, http, row, served>>

\* It finds none: the stream has ended, broken off, or has a line too long for
\* the scanner, whose error is not looked at.
ScanEnds(c) ==
    /\ goroutine[c] = "scan"
    /\ goroutine' = At(goroutine, c, "end")
    /\ provider' = At(provider, c, "broke")
    /\ UNCHANGED <<hangs, http, row, served, generated, lines, line>>

\* The line is no JSON.
ScanFails(c) == goroutine[c] = "scan" /\ Fails(c)

\* (mutant) the handler does not close its end of the pipe
NotReleased(c) == FALSE

Released(c) == handler[c] = "done"

\* resStream.Close, deferred by the handler, lets a write go with an error,
\* which is not looked at.
WriteReleased(c) ==
    /\ goroutine[c] = "write"
    /\ Released(c)
    /\ Written(c)
    /\ UNCHANGED <<hangs, http, row, served, asked>>

\* writer.Close is deferred first and runs last; an error given before stays.
ClosePipe(c) ==
    /\ goroutine[c] = "end" /\ at[c] = "out"
    /\ pipe' = At(pipe, c, IF pipe[c] = "open" THEN "eof" ELSE pipe[c])
    /\ goroutine' = At(goroutine, c, "idle")
    /\ UNCHANGED <<hangs, http, row, handler, relayed, empties, broken, asked, line>>

-----------------------------------------------------------------------------

User(c) == Toggle(c) \/ Ask(c)

Browser(c) == Completed(c) \/ \E n \in 1 .. 2 * Len(relayed[c]) : Read(c, n)

Handler(c) == Begin(c) \/ BeginFails(c) \/ Relay(c) \/ PipeEnds(c)

Goroutine(c) == UsesHttp(c) \/ WriteReleased(c) \/ ClosePipe(c)

Provider(c) ==
    \/ Send(c) \/ SendFails(c) \/ ScanEnds(c) \/ ScanFails(c)
    \/ \E text, last \in BOOLEAN : Line(c, text, last)

Cancelled(c) == ctxDone(c) /\ (SendFails(c) \/ ScanEnds(c))

\* Embed: another request to a provider at the same hosts.
Embed(r) ==
    /\ HttpStep(r)
    /\ at[r] = "out" => tries[r] < MaxTries
    /\ tries' = At(tries, r, tries[r] + (IF at[r] = "out" THEN 1 ELSE 0))
    /\ UNCHANGED <<hangs, summaryEnabled, loading, summary, received, served, asked,
                   goroutine, line>>

Next ==
    \/ \E c \in Chats : \/ User(c) \/ Browser(c) \/ Breaks(c)
                         \/ Handler(c) \/ Goroutine(c) \/ Provider(c)
    \/ \E r \in Requests \ Chats : Embed(r)

Spec == Init /\ [][Next]_vars

\* Browser, handler and goroutine go on when they can; the provider does, or
\* hangs; and a request whose context has ended is given up.
FairSpec ==
    /\ Spec
    /\ \A c \in Chats : /\ WF_vars(Browser(c))
                        /\ WF_vars(Handler(c))
                        /\ WF_vars(Goroutine(c))
                        /\ WF_vars(Cancelled(c))
                        /\ WF_vars(c \notin hangs /\ Provider(c))

-----------------------------------------------------------------------------

TypeOK ==
    /\ HttpTypeOK
    /\ {summaryEnabled, loading, broken} \subseteq [Chats -> BOOLEAN]
    /\ summary \in [Chats -> Seq(1 .. MaxLines \union {ErrorText, Failure})]
    /\ relayed \in [Chats -> Seq(1 .. MaxLines \union {ErrorText})]
    /\ {received, empties, line, generated, lines} \subseteq [Chats -> Nat]
    /\ tries \in [Requests -> 0 .. MaxTries]
    /\ handler \in [Chats -> {"idle", "called", "reading", "done"}]
    /\ goroutine \in [Chats -> {"idle", "start", "scan", "write", "end"}]
    /\ pipe \in [Chats -> {"open", "error", "eof"}]
    /\ provider \in [Chats -> {"talking", "done", "broke"}]
    /\ hangs \subseteq Chats

Generated(c, n) == [i \in 1 .. n |-> i]

\* What the row shows is the beginning of what the provider has generated, in
\* whole characters however the bytes arrive, with an error after it or in its
\* place: nothing is repeated, left out or out of order.
ShownIsGenerated ==
    \A c \in Chats :
      \/ summary[c] = <<Failure>>
      \/ \E n \in 0 .. generated[c] :
           summary[c] \in {Generated(c, n), Append(Generated(c, n), ErrorText)}

\* When the provider has said it is done and no error is shown, the row shows
\* all there is once it has stopped loading.
WholeAnswer ==
    \A c \in Chats :
      (/\ handler[c] # "called"
       /\ ~loading[c]
       /\ provider[c] = "done"
       /\ \A i \in DOMAIN summary[c] : summary[c][i] \notin {ErrorText, Failure})
        => summary[c] = Generated(c, generated[c])

\* The row stops loading, whatever breaks, if the provider does not hang.
LoadingEnds == \A c \in Chats : (loading[c] /\ c \notin hangs) ~> ~loading[c]

\* When the handler has returned, or the connection is broken, the goroutine
\* ends, and has given back its url and its client, even if the provider hangs.
NothingLeftBehind ==
    \A c \in Chats : ctxDone(c) ~> (goroutine[c] = "idle" /\ at[c] = "out")
=============================================================================
