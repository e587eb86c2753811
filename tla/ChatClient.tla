----------------------------- MODULE ChatClient -----------------------------
(***************************************************************************)
(* The chat page of the web application, in the browser's tabs.  A turn is *)
(* a question and the answer streamed into the message after it.  Each tab *)
(* holds the messages it shows and the conversation it believes they are   *)
(* of, and after every change writes the one under the other to the        *)
(* browser's storage, which all tabs share.  A conversation gets its       *)
(* number from the server, with the first event of its first answer.       *)
(*                                                                         *)
(* A message stands for a question and its answer: the turn that asked it, *)
(* the turns whose tokens the answer holds, and whether it is still drawn  *)
(* with a cursor.                                                          *)
(***************************************************************************)
EXTENDS Integers, Sequences, SequencesExt

CONSTANTS
  Tabs,
  MaxTurns,        \* the questions asked, in all tabs
  MaxTrips         \* how often a user changes conversation or leaves the page

ASSUME ChatClientAssumption == Tabs # {} /\ MaxTurns \in Nat /\ MaxTrips \in Nat

VARIABLES
  turn,        \* the turns asked: [tab, mount, conv, step]
  known,       \* the conversations the server has made: 1..known
  shown,       \* the conversation a tab believes it shows, or NoConv
  messages,    \* the messages it shows
  streaming,   \* isStreaming: the composer is disabled
  stream,      \* the turn whose controller the tab holds, or 0
  address,     \* the conversation in the address
  mount,       \* how often the page was left, or 0 - mount: it is left
  composer,    \* what is in the composer: "", "text" or the "suggestion"
  late,        \* suggestions clicked with text in the composer: for each its
               \* timer, with the conversation of the page at the click
  sidebar,     \* the conversations the list shows
  stored,      \* localStorage: the messages of each conversation
  listed,      \* localStorage: the list of conversations
  trips,
  crossed,     \* the turns under way when their tab opened another conversation,
               \* and those a suggestion sent into one that was closed
  shared       \* the conversations two tabs have shown at a time

chatClientVars == <<turn, known, shown, messages, streaming, stream, address, mount, composer,
                    late, sidebar, stored, listed, trips, crossed, shared>>

NoConv == 0
Convs == 1..MaxTurns
TurnSteps == {"sent", "open", "ended", "failed", "refused", "aborted"}
Message == [turn: 1..MaxTurns, from: SUBSET (1..MaxTurns), cursor: BOOLEAN]
Running(i) == turn[i].step \in {"sent", "open"}
\* The page that asked is still the one mounted: what it sets is seen.
Seen(i) == mount[turn[i].tab] = turn[i].mount

ChatClientTypeOK ==
  /\ \A i \in DOMAIN turn :
       turn[i] \in [tab: Tabs, mount: 0..MaxTrips, conv: {NoConv} \cup Convs, step: TurnSteps]
  /\ Len(turn) <= MaxTurns /\ known \in 0..MaxTurns
  /\ shown \in [Tabs -> {NoConv} \cup Convs] /\ address \in [Tabs -> {NoConv} \cup Convs]
  /\ \A b \in Tabs : messages[b] \in Seq(Message)
  /\ streaming \in [Tabs -> BOOLEAN]
  /\ \A b \in Tabs : late[b] \in Seq({NoConv} \cup Convs)
  /\ stream \in [Tabs -> 0..MaxTurns]
  /\ mount \in [Tabs -> -1 - MaxTrips .. MaxTrips]
  /\ composer \in [Tabs -> {"", "text", "suggestion"}]
  /\ sidebar \in [Tabs -> SUBSET Convs] /\ listed \subseteq Convs
  /\ \A c \in Convs : stored[c] \in Seq(Message)
  /\ trips \in 0..MaxTrips /\ crossed \subseteq 1..MaxTurns /\ shared \subseteq Convs

ChatClientInit ==
  /\ turn = <<>> /\ known = 0
  /\ shown = [b \in Tabs |-> NoConv] /\ messages = [b \in Tabs |-> <<>>]
  /\ streaming = [b \in Tabs |-> FALSE] /\ stream = [b \in Tabs |-> 0]
  /\ address = [b \in Tabs |-> NoConv] /\ mount = [b \in Tabs |-> 0]
  /\ composer = [b \in Tabs |-> ""] /\ late = [b \in Tabs |-> <<>>]
  /\ sidebar = [b \in Tabs |-> {}] /\ stored = [c \in Convs |-> <<>>] /\ listed = {}
  /\ trips = 0 /\ crossed = {} /\ shared = {}

Here(b) == mount[b] >= 0
-----------------------------------------------------------------------------
\* The tab shows the messages ms as those of c: the effect stores them, and the
\* other tabs' lists hear of it.
Shows(b, c, ms) ==
  /\ shown' = [shown EXCEPT ![b] = c]
  /\ messages' = [messages EXCEPT ![b] = ms]
  /\ IF c # NoConv /\ ms # <<>>
       THEN /\ stored' = [stored EXCEPT ![c] = ms]
            /\ listed' = listed \cup {c}
            /\ sidebar' = [a \in Tabs |-> IF a # b /\ Here(a) THEN listed \cup {c} ELSE sidebar[a]]
       ELSE UNCHANGED <<stored, listed, sidebar>>
  /\ shared' = shared \cup {d \in Convs : d = c /\ \E a \in Tabs \ {b} : shown[a] = c}

\* updateLastAssistant: the last message, whichever that is.
LastBecomes(ms, i, cursor) ==
  IF ms = <<>> THEN ms
  ELSE Front(ms) \o <<[Last(ms) EXCEPT !.from = @ \cup i, !.cursor = cursor]>>

Abort(b, ts) == IF stream[b] # 0 /\ ts[stream[b]].step \in {"sent", "open"}
                  THEN [ts EXCEPT ![stream[b]].step = "aborted"] ELSE ts

\* sendMessage, of a question to conversation c: the stream before is aborted,
\* its message keeps its cursor, and the new one joins those on the screen.
SendMessage(b, c) ==
  LET i == Len(turn) + 1 IN
  /\ i <= MaxTurns
  /\ turn' = Append(Abort(b, turn),
                    [tab |-> b, mount |-> mount[b], conv |-> c, step |-> "sent"])
  /\ stream' = [stream EXCEPT ![b] = i]
  /\ streaming' = [streaming EXCEPT ![b] = TRUE]
  /\ Shows(b, shown[b], Append(messages[b], [turn |-> i, from |-> {}, cursor |-> TRUE]))
  /\ composer' = [composer EXCEPT ![b] = ""]

Compose(b) ==
  /\ Here(b) /\ ~streaming[b] /\ composer[b] = "" /\ Len(turn) < MaxTurns
  /\ composer' = [composer EXCEPT ![b] = "text"]
  /\ UNCHANGED <<turn, known, shown, messages, streaming, stream, address, mount, late, sidebar,
                 stored, listed, trips, crossed, shared>>

Send(b) ==
  /\ Here(b) /\ composer[b] # "" /\ ~streaming[b]
  /\ SendMessage(b, shown[b])
  /\ UNCHANGED <<known, address, mount, late, trips, crossed>>

\* A suggestion is put in the composer and "sent" 50 ms later by the handler
\* of the page as it was drawn at the click: with the text it held then, if any,
\* to the conversation it showed then.
Suggest(b) ==
  /\ Here(b) /\ messages[b] = <<>> /\ Len(turn) + Len(late[b]) < MaxTurns
  /\ late' = [late EXCEPT ![b] = IF composer[b] # "" /\ ~streaming[b]
                                   THEN Append(@, shown[b]) ELSE @]
  /\ composer' = [composer EXCEPT ![b] = "suggestion"]
  /\ UNCHANGED <<turn, known, shown, messages, streaming, stream, address, mount, sidebar,
                 stored, listed, trips, crossed, shared>>

SuggestionFires(b) ==
  /\ late[b] # <<>> /\ Here(b)
  /\ late' = [late EXCEPT ![b] = Tail(@)]
  /\ SendMessage(b, Head(late[b]))
  /\ crossed' = IF Head(late[b]) = shown[b] THEN crossed ELSE crossed \cup {Len(turn) + 1}
  /\ UNCHANGED <<known, address, mount, trips>>

\* The server accepts the turn; its first event names the conversation.
Meta(i) ==
  LET b == turn[i].tab
      c == IF turn[i].conv = NoConv THEN known + 1 ELSE turn[i].conv IN
  /\ turn[i].step = "sent"
  /\ turn' = [turn EXCEPT ![i].step = "open", ![i].conv = c]
  /\ known' = IF turn[i].conv = NoConv THEN c ELSE known
  /\ IF Seen(i) THEN Shows(b, c, messages[b])
                ELSE UNCHANGED <<shown, messages, stored, listed, sidebar, shared>>
  /\ UNCHANGED <<streaming, stream, address, mount, composer, late, trips, crossed>>

\* Tokens, tool calls, citations, sources and warnings go to the last message.
Token(i) ==
  LET b == turn[i].tab IN
  /\ turn[i].step = "open" /\ Seen(i) /\ messages[b] # <<>>
  /\ i \notin Last(messages[b]).from
  /\ Shows(b, shown[b], LastBecomes(messages[b], {i}, Last(messages[b]).cursor))
  /\ UNCHANGED <<turn, known, streaming, stream, address, mount, composer, late, trips, crossed>>

\* "done", an "error" event, or the end of the stream.
Done(i) ==
  LET b == turn[i].tab IN
  /\ turn[i].step = "open"
  /\ turn' = [turn EXCEPT ![i].step = "ended"]
  /\ IF Seen(i) THEN /\ Shows(b, shown[b], LastBecomes(messages[b], {}, FALSE))
                     /\ streaming' = [streaming EXCEPT ![b] = FALSE]
                ELSE UNCHANGED <<shown, messages, stored, listed, sidebar, shared, streaming>>
  /\ UNCHANGED <<known, stream, address, mount, composer, late, trips, crossed>>

\* The quota is used up, the request fails or the stream breaks off: the
\* composer is given back, and the message keeps its cursor.
SendFails(i) ==
  /\ Running(i)
  /\ turn' = [turn EXCEPT ![i].step = IF @ = "sent" THEN "refused" ELSE "failed"]
  /\ streaming' = IF Seen(i) THEN [streaming EXCEPT ![turn[i].tab] = FALSE] ELSE streaming
  /\ UNCHANGED <<known, shown, messages, stream, address, mount, composer, late, sidebar, stored,
                 listed, trips, crossed, shared>>

Trip == trips < MaxTrips /\ trips' = trips + 1
UnderWay(b) == {i \in DOMAIN turn : turn[i].tab = b /\ Seen(i) /\ Running(i)}

\* clearMessages, and the address without a conversation.
NewChat(b) ==
  /\ Here(b) /\ Trip
  /\ turn' = Abort(b, turn)
  /\ Shows(b, NoConv, <<>>)
  /\ streaming' = [streaming EXCEPT ![b] = FALSE]
  /\ address' = [address EXCEPT ![b] = NoConv]
  /\ UNCHANGED <<known, stream, mount, composer, late, crossed>>

\* The messages on the screen kept under the new address.
LoadNothing(b, c) ==
  /\ address' = [address EXCEPT ![b] = c]
  /\ Shows(b, c, messages[b])

\* The effect on a new address: without stored messages those on the screen stay.
Load(b, c) ==
  /\ address' = [address EXCEPT ![b] = c]
  /\ Shows(b, c, IF stored[c] # <<>> THEN stored[c] ELSE messages[b])

Open(b) ==
  /\ Here(b) /\ Trip
  /\ \E c \in sidebar[b] \ {address[b]} : Load(b, c)
  /\ crossed' = crossed \cup UnderWay(b)
  /\ UNCHANGED <<turn, known, streaming, stream, mount, composer, late>>

\* The page is left; nothing aborts the stream, and nobody sees it end.  A
\* suggestion still to be sent then asks a question no page shows: left out.
LeaveChat(b) ==
  /\ Here(b) /\ Trip
  /\ mount' = [mount EXCEPT ![b] = -1 - @]
  /\ late' = [late EXCEPT ![b] = <<>>]
  /\ shown' = [shown EXCEPT ![b] = NoConv] /\ messages' = [messages EXCEPT ![b] = <<>>]
  /\ UNCHANGED <<turn, known, streaming, stream, address, composer, sidebar, stored, listed,
                 crossed, shared>>

\* It is mounted anew, with a conversation in the address or without.
EnterChat(b) ==
  /\ ~Here(b)
  /\ mount' = [mount EXCEPT ![b] = -@]
  /\ streaming' = [streaming EXCEPT ![b] = FALSE] /\ stream' = [stream EXCEPT ![b] = 0]
  /\ composer' = [composer EXCEPT ![b] = ""]
  /\ sidebar' = [sidebar EXCEPT ![b] = listed]
  /\ \E c \in {NoConv, address[b]} :
       /\ address' = [address EXCEPT ![b] = c]
       /\ shown' = [shown EXCEPT ![b] = c]
       /\ messages' = [messages EXCEPT ![b] = IF c = NoConv THEN <<>> ELSE stored[c]]
       /\ shared' = shared \cup {d \in Convs : d = c /\ \E a \in Tabs \ {b} : shown[a] = c}
  /\ UNCHANGED <<turn, known, late, stored, listed, trips, crossed>>

ChatUser == \E b \in Tabs :
  Compose(b) \/ Send(b) \/ Suggest(b) \/ NewChat(b) \/ Open(b) \/ LeaveChat(b) \/ EnterChat(b)
ChatNet == \/ \E b \in Tabs : SuggestionFires(b)
           \/ \E i \in DOMAIN turn : Meta(i) \/ Token(i) \/ Done(i) \/ SendFails(i)
ChatClientNext == ChatUser \/ ChatNet
-----------------------------------------------------------------------------
(***************************************************************************)
(* Properties.                                                             *)
(***************************************************************************)
\* What is stored under a conversation is that conversation's: its turns, or
\* questions that failed before they had one, with their own answers.  The
\* exceptions are a user who opens another conversation while an answer is under
\* way, or in the 50 ms before a suggestion is sent: its tokens, and the
\* conversation its first event names, are then taken for those of the messages
\* on the screen.
StoredBelongs ==
  \A c \in Convs : \A k \in DOMAIN stored[c] :
    LET m == stored[c][k] IN
    /\ turn[m.turn].conv \in {c, NoConv} \/ crossed # {}
    /\ m.from \subseteq {m.turn} \cup crossed

\* The storage forgets no turn of a conversation, unless two tabs showed it at
\* a time, the later writing what it knows of it, or an answer crossed over.
StoredIsKept ==
  \A c \in Convs : \A k \in DOMAIN stored[c] :
    \/ \E j \in DOMAIN stored'[c] : stored'[c][j].turn = stored[c][k].turn
    \/ c \in shared' \/ crossed # {}

\* Both: nothing foreign is stored under a conversation, and nothing of it is
\* lost from there.
ChatIsKept ==
  StoredBelongs /\ [][StoredBelongs' /\ StoredIsKept]_chatClientVars
=============================================================================
