---------------------------- MODULE TelnetParser ----------------------------
(***************************************************************************)
(* TelnetParser (telnet-parser.ts): the byte stream of a MUD, cut into     *)
(* arbitrary TCP reads, becomes clean text, echo transitions, GMCP         *)
(* messages and telnet replies.                                            *)
(*                                                                         *)
(* The MUD is external: it sends text, commands, options and               *)
(* subnegotiations, encoded as RFC 854 asks, and the wire delivers the     *)
(* bytes in order, split anywhere.                                         *)
(***************************************************************************)
EXTENDS Integers, Sequences, FiniteSets

CONSTANTS
  Octets,                  \* bytes of text and of payloads
  Commands, Offers, SubOptions,    \* two-byte commands, <<command, option>>, options
  MaxItems,                \* bound: what the MUD sends
  MaxPayload,              \* bound: bytes of one of its subnegotiations
  MaxUnread,               \* bound: bytes unread when the MUD sends the next item
  MaxSubnegotiationBytes   \* the cap on one subnegotiation payload

(* Commands and options, with their codes. *)
SE == 240
NOP == 241
GA == 249
SB == 250
WILL == 251
WONT == 252
DO == 253
DONT == 254
IAC == 255

ECHO == 1
SGA == 3
TTYPE == 24
NAWS == 31
NEW_ENV == 39
CHARSET == 42
MSDP == 69
MCCP2 == 86
MXP == 91
GMCP == 201
REQUEST == 1
Space == 32

ASSUME TelnetAssumption ==
  /\ {MaxItems, MaxPayload, MaxUnread, MaxSubnegotiationBytes} \subseteq Nat
  /\ Octets \subseteq 0 .. 255 /\ SubOptions \subseteq 0 .. 255
  /\ Commands \subseteq 0 .. SB - 1
  /\ Offers \subseteq (WILL .. DONT) \X (0 .. 255)

VARIABLES
  sent,        \* how much the MUD has sent
  meant,       \* history: what it meant by it
  wire,        \* bytes on their way
  parser,      \* the fields of TelnetParser
  shown,       \* text bytes and echo transitions, in the order of the segments
  messages,    \* GMCP messages
  replies      \* what was written to the MUD

delivered == <<parser, shown, messages, replies>>
telnetVars == <<sent, meant, wire, delivered>>

State == {"TEXT", "IAC", "NEGOTIATION", "SUBNEG", "SUBNEG_IAC",
          "SUBNEG_DISCARD", "SUBNEG_DISCARD_IAC"}

InitParser ==
  [state |-> "TEXT", cmd |-> 0, opt |-> 0, buf |-> <<>>, negotiated |-> {},
   passwordMode |-> FALSE, ttypeQueue |-> <<"MUDBasher", "XTERM-256color", "MTTS 141">>]

(* The options the MUD may ask about: by an offer, or for the terminal     *)
(* type, by a subnegotiation.                                              *)
Askable == {TTYPE} \cup {offer[2] : offer \in Offers}

(* What the MUD has shown, whether it suppresses the echo, its messages,    *)
(* how often it has asked for an option, and the subnegotiation it is in.   *)
InitMeant ==
  [shown |-> <<>>, off |-> FALSE, messages |-> <<>>, asked |-> [opt \in Askable |-> 0],
   open |-> FALSE, opt |-> 0, data |-> <<>>]

TInit ==
  /\ sent = 0 /\ meant = InitMeant /\ wire = <<>>
  /\ parser = InitParser
  /\ shown = <<>> /\ messages = <<>> /\ replies = <<>>

-----------------------------------------------------------------------------
(* A process() call threads r through its bytes: the parser's fields p, the *)
(* running text, and what the calls so far have returned.  Segments are     *)
(* kept as their bytes and echo transitions, whatever runs the text was cut *)
(* into.                                                                    *)

To(r, state) == [r EXCEPT !.p.state = state]
Reply(r, msgs) == [r EXCEPT !.replies = @ \o msgs]
PushText(r, b) == [r EXCEPT !.text = Append(@, b)]
FlushText(r) == [r EXCEPT !.text = <<>>, !.segments = @ \o r.text]

(* An echo transition, which is no byte. *)
Echo(suppressed) == IF suppressed THEN 256 ELSE 257

SetPasswordMode(r, on) ==
  IF r.p.passwordMode = on THEN r
  ELSE LET f == FlushText(r)
       IN [f EXCEPT !.p.passwordMode = on, !.segments = Append(@, Echo(on))]

(* Also the state that follows: every caller ends up collecting, or        *)
(* discarding.                                                             *)
AppendSubnegByte(r, b) ==
  IF Len(r.p.buf) >= MaxSubnegotiationBytes
  THEN [r EXCEPT !.p.buf = <<>>, !.p.state = "SUBNEG_DISCARD"]
  ELSE [r EXCEPT !.p.buf = Append(@, b), !.p.state = "SUBNEG"]

-----------------------------------------------------------------------------
(* Negotiation.  A reply is the command and option, or SB, the option and  *)
(* what the subnegotiation carries.                                        *)

SendNextTtype(r) ==
  LET q == r.p.ttypeQueue
      name == IF q = <<>> THEN "MUDBasher" ELSE Head(q)
  IN Reply([r EXCEPT !.p.ttypeQueue = IF q = <<>> THEN q ELSE Tail(q)],
           <<<<WILL, TTYPE>>, <<SB, TTYPE, name>>>>)

Agree(cmd, opt) ==
  CASE cmd = DO -> <<<<WILL, opt>>>> [] cmd = WILL -> <<<<DO, opt>>>> [] OTHER -> <<>>

Refuse(cmd, opt) ==
  CASE cmd = DO -> <<<<WONT, opt>>>> [] cmd = WILL -> <<<<DONT, opt>>>> [] OTHER -> <<>>

(* The options answered once, and the commands that count. *)
Answered(cmd, opt) ==
  \/ opt \in {GMCP, MXP}
  \/ opt \in {TTYPE, NEW_ENV} /\ cmd = DO
  \/ opt \in {MSDP, SGA} /\ cmd = WILL
  \/ opt = NAWS /\ cmd \in {DO, WILL}

FirstAnswer(r, cmd, opt) ==
  CASE opt = GMCP    -> Reply(r, Agree(cmd, opt) \o <<<<SB, GMCP, "client">>,
                                                     <<SB, GMCP, "client_version">>>>)
    [] opt = MXP     -> Reply(r, Refuse(cmd, opt))
    [] opt = TTYPE   -> SendNextTtype(r)
    [] opt = NEW_ENV -> Reply(r, Agree(cmd, opt))
    [] opt = MSDP    -> Reply(r, Agree(cmd, opt) \o
                                 <<<<SB, MSDP, "CLIENT_ID">>, <<SB, MSDP, "CLIENT_VERSION">>,
                                   <<SB, MSDP, "XTERM_256_COLORS">>, <<SB, MSDP, "UTF_8">>>>)
    [] opt = SGA     -> Reply(r, <<<<WONT, SGA>>>>)
    [] opt = NAWS    -> Reply(r, IF cmd = DO THEN <<<<SB, NAWS, "size">>>>
                                 ELSE <<<<WONT, NAWS>>>>)

(* Mutant of HandleNegotiation: a flag is tested and never set. *)
HandleNegotiationForgets(r, cmd, opt) ==
  CASE opt = ECHO -> IF cmd \in {WILL, WONT} THEN SetPasswordMode(r, cmd = WILL) ELSE r
    [] opt = CHARSET -> IF cmd = DO /\ CHARSET \notin r.p.negotiated
                        THEN Reply(r, <<<<WILL, CHARSET>>>>) ELSE r
    [] opt = MCCP2 -> r
    [] opt \in {GMCP, TTYPE, MSDP, MXP, NEW_ENV, SGA, NAWS} ->
         IF Answered(cmd, opt) /\ opt \notin r.p.negotiated
         THEN FirstAnswer(r, cmd, opt) ELSE r
    [] OTHER -> Reply(r, Refuse(cmd, opt))

HandleNegotiation(r, cmd, opt) ==
  CASE opt = ECHO -> IF cmd \in {WILL, WONT} THEN SetPasswordMode(r, cmd = WILL) ELSE r
    [] opt = CHARSET -> IF cmd = DO /\ CHARSET \notin r.p.negotiated
                        THEN Reply(r, <<<<WILL, CHARSET>>>>) ELSE r
    [] opt = MCCP2 -> r
    [] opt \in {GMCP, TTYPE, MSDP, MXP, NEW_ENV, SGA, NAWS} ->
         IF Answered(cmd, opt) /\ opt \notin r.p.negotiated
         THEN FirstAnswer([r EXCEPT !.p.negotiated = @ \cup {opt}], cmd, opt) ELSE r
    [] OTHER -> Reply(r, Refuse(cmd, opt))

(* Decoding a payload as UTF-8 turns the byte 255 into U+FFFD. *)
Utf8(data) == [i \in DOMAIN data |-> IF data[i] = 255 THEN 65533 ELSE data[i]]

(* handleGMCPSubneg: the package ends at the first space. *)
GmcpMessage(data) ==
  LET raw == Utf8(data)
      spaces == {i \in DOMAIN raw : raw[i] = Space}
      first == CHOOSE i \in spaces : \A j \in spaces : i <= j
  IN IF spaces = {} THEN [package |-> raw, data |-> <<>>]
     ELSE [package |-> SubSeq(raw, 1, first - 1),
           data |-> SubSeq(raw, first + 1, Len(raw))]

HandleSubnegotiation(r, opt, data) ==
  LET requested == data # <<>> /\ data[1] = REQUEST IN
  CASE opt = TTYPE /\ requested   -> SendNextTtype(r)
    [] opt = GMCP                 -> [r EXCEPT !.messages = Append(@, GmcpMessage(data))]
    [] opt = CHARSET /\ CHARSET \notin r.p.negotiated ->
         Reply([r EXCEPT !.p.negotiated = @ \cup {CHARSET}], <<<<SB, CHARSET, "UTF-8">>>>)
    [] opt = NEW_ENV /\ requested -> Reply(r, <<<<SB, NEW_ENV, "IPADDRESS">>>>)
    [] OTHER                      -> r

-----------------------------------------------------------------------------
(* The state machine of process(), one operator for each state. *)

InText(r, b) == IF b = IAC THEN To(r, "IAC") ELSE PushText(r, b)

InIac(r, b) ==
  CASE b = IAC         -> To(PushText(r, 255), "TEXT")
    [] b \in WILL .. DONT \/ b = SB -> [To(r, "NEGOTIATION") EXCEPT !.p.cmd = b]
    [] OTHER           -> To(r, "TEXT")

InNegotiation(r, b) ==
  IF r.p.cmd = SB
  THEN [To(r, "SUBNEG") EXCEPT !.p.opt = b, !.p.buf = <<>>]
  ELSE To(HandleNegotiation(r, r.p.cmd, b), "TEXT")

InSubneg(r, b) ==
  IF b = IAC THEN To(r, "SUBNEG_IAC") ELSE AppendSubnegByte(r, b)

InSubnegIac(r, b) ==
  CASE b = SE  -> To(HandleSubnegotiation(r, r.p.opt, r.p.buf), "TEXT")
    [] b = IAC -> AppendSubnegByte(r, 255)
    [] OTHER   -> To(r, "TEXT")

InDiscard(r, b) == IF b = IAC THEN To(r, "SUBNEG_DISCARD_IAC") ELSE r

InDiscardIac(r, b) == To(r, IF b = SE THEN "TEXT" ELSE "SUBNEG_DISCARD")

Byte(r, b) ==
  CASE r.p.state = "TEXT"               -> InText(r, b)
    [] r.p.state = "IAC"                -> InIac(r, b)
    [] r.p.state = "NEGOTIATION"        -> InNegotiation(r, b)
    [] r.p.state = "SUBNEG"             -> InSubneg(r, b)
    [] r.p.state = "SUBNEG_IAC"         -> InSubnegIac(r, b)
    [] r.p.state = "SUBNEG_DISCARD"     -> InDiscard(r, b)
    [] r.p.state = "SUBNEG_DISCARD_IAC" -> InDiscardIac(r, b)

Run(r, data) ==
  LET after[k \in 0 .. Len(data)] == IF k = 0 THEN r ELSE Byte(after[k - 1], data[k])
  IN  after[Len(data)]

(* Mutant of Process: a read starts in TEXT, as if reads ended between     *)
(* sequences.                                                              *)
ProcessFresh(r, data) == FlushText(Run(To(r, "TEXT"), data))

Process(r, data) == FlushText(Run(r, data))

(* What has been delivered, before a call. *)
Delivered ==
  [p |-> parser, text |-> <<>>, segments |-> shown, messages |-> messages, replies |-> replies]

(* One TCP read of n bytes. *)
Read(n) ==
  /\ n \in 1 .. Len(wire)
  /\ LET r == Process(Delivered, SubSeq(wire, 1, n)) IN
       /\ parser' = r.p
       /\ shown' = r.segments
       /\ messages' = r.messages
       /\ replies' = r.replies
  /\ wire' = SubSeq(wire, n + 1, Len(wire))
  /\ UNCHANGED <<sent, meant>>

-----------------------------------------------------------------------------
(* The MUD. *)

Escaped(b) == IF b = IAC THEN <<IAC, IAC>> ELSE <<b>>

Puts(bytes, meaning) ==
  /\ Len(wire) <= MaxUnread
  /\ wire' = wire \o bytes
  /\ meant' = meaning
  /\ UNCHANGED delivered

Sends(bytes, meaning) == sent < MaxItems /\ sent' = sent + 1 /\ Puts(bytes, meaning)

SendText(b) == ~meant.open /\ Sends(Escaped(b), [meant EXCEPT !.shown = Append(@, b)])

SendCommand(cmd) == ~meant.open /\ Sends(<<IAC, cmd>>, meant)

Asking(opt) == [meant EXCEPT !.asked[opt] = @ + 1]

(* An option; of ECHO, the player sees the transitions. *)
SendOption(cmd, opt) ==
  LET offered == IF cmd \in {DO, WILL} THEN Asking(opt) ELSE meant
  IN  /\ ~meant.open
      /\ Sends(<<IAC, cmd, opt>>,
               IF opt = ECHO /\ cmd \in {WILL, WONT} /\ meant.off # (cmd = WILL)
               THEN [offered EXCEPT !.off = (cmd = WILL), !.shown = Append(@, Echo(cmd = WILL))]
               ELSE offered)

BeginSub(opt) ==
  ~meant.open /\ Sends(<<IAC, SB, opt>>, [meant EXCEPT !.open = TRUE, !.opt = opt, !.data = <<>>])

SendPayload(b) ==
  /\ meant.open /\ Len(meant.data) < MaxPayload
  /\ Puts(Escaped(b), [meant EXCEPT !.data = Append(@, b)])
  /\ UNCHANGED sent

Oversized == Len(meant.data) > MaxSubnegotiationBytes

Carries(opt) == meant.opt = opt /\ ~Oversized

(* The end of a subnegotiation; one that is too long carries nothing. *)
EndSub ==
  LET carried == CASE Carries(GMCP) ->
                        [meant EXCEPT !.messages = Append(@, GmcpMessage(meant.data))]
                   [] Carries(TTYPE) /\ meant.data # <<>> /\ meant.data[1] = REQUEST ->
                        Asking(TTYPE)
                   [] OTHER -> meant
  IN  meant.open /\ Sends(<<IAC, SE>>, [carried EXCEPT !.open = FALSE])

(* A command inside a subnegotiation breaks it off, or, in one that is too  *)
(* long, is passed over with the rest of it.                                *)
BreakSub == meant.open /\ Sends(<<IAC, NOP>>, [meant EXCEPT !.open = Oversized])

TNext ==
  \/ \E b \in Octets : SendText(b) \/ SendPayload(b)
  \/ \E cmd \in Commands : SendCommand(cmd)
  \/ \E offer \in Offers : SendOption(offer[1], offer[2])
  \/ \E opt \in SubOptions : BeginSub(opt)
  \/ EndSub \/ BreakSub
  \/ \E n \in DOMAIN wire : Read(n)

TSpec == TInit /\ [][TNext]_telnetVars

-----------------------------------------------------------------------------
(* Properties.                                                             *)

(* The parser's fields are well typed; above all the bytes kept of one     *)
(* subnegotiation never exceed maxSubnegotiationBytes, also when they      *)
(* arrive as escaped IACs.                                                 *)
TTypeOK ==
  /\ parser.state \in State
  /\ parser.cmd \in {0} \cup SB .. DONT
  /\ parser.opt \in 0 .. 255
  /\ Len(parser.buf) <= MaxSubnegotiationBytes
  /\ parser.passwordMode \in BOOLEAN
  /\ Len(parser.ttypeQueue) <= 3

(* However the stream was split into reads, once it is drained the player  *)
(* has been shown exactly the text and the echo transitions the MUD meant, *)
(* in order: no byte of an option, of a payload or of an oversized         *)
(* subnegotiation leaks into the text, and none of the text is lost.       *)
ShownIsMeant ==
  wire = <<>> => shown = meant.shown /\ parser.passwordMode = meant.off

(* A drained stream has delivered each GMCP message of legal size once, in *)
(* order and whole, and none of the oversized or broken ones.              *)
MessagesAreMeant == wire = <<>> => messages = meant.messages

(* A read boundary has no meaning: text and messages arrive as sent.       *)
ReadIsMeant == ShownIsMeant /\ MessagesAreMeant

(* The places of the replies that take a position on an option. *)
Answers(opt) == {i \in DOMAIN replies : replies[i][1] # SB /\ replies[i][2] = opt}

(* No negotiation loop: the proxy takes a position on an option at most as  *)
(* often as the MUD has asked (a DO, a WILL, a request for the terminal    *)
(* type), so a WONT or DONT is never answered, and two ends that only      *)
(* acknowledge each other fall silent.  The options with a flag that is    *)
(* set before their one answer are answered once in the life of a session, *)
(* however often the MUD repeats itself.  The others are not: CHARSET is   *)
(* agreed to at every DO, an option nobody knows is refused at every offer *)
(* and TTYPE is announced again at every request.                          *)
NoNegotiationLoop ==
  /\ \A opt \in {replies[i][2] : i \in DOMAIN replies} :
       Cardinality(Answers(opt)) <= IF opt \in Askable THEN meant.asked[opt] ELSE 0
  /\ \A opt \in {GMCP, MXP, MSDP, NEW_ENV, SGA, NAWS} : Cardinality(Answers(opt)) <= 1

=============================================================================
