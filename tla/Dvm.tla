---------------------------------- MODULE Dvm ----------------------------------
(***************************************************************************)
(* The DVM (api/dvm.rs) around the query path: its subscription, the       *)
(* notification channel it reads, the reading of a request's tags and the  *)
(* sending of the answer.  One loop handles one request at a time, and     *)
(* computes in one of the request slots of Queries, beside HTTP.           *)
(*                                                                         *)
(* The channel is tokio's broadcast channel in the relay client: a full    *)
(* one overwrites its oldest entry, and the reader is told so.  Any number *)
(* of requests arrive; the history of one of them, the marked one, is      *)
(* followed.                                                               *)
(***************************************************************************)
EXTENDS Queries, SequencesExt

CONSTANTS
    Server,             \* the request slot of the DVM's loop
    Message,            \* what clients send: sequences of tags
    Pubkey,             \* strings of 64 hexadecimal digits
    ChannelCapacity,
    DefaultHops, MaxHopsLimit

ASSUME ServerAssumption == Server \in Request /\ \A s \in Setup, r \in Request : s.kind[r] = "dvm" <=> r = Server
ASSUME CapacityAssumption == ChannelCapacity \in Nat \ {0}
MaxU8 == 255
ASSUME HopsAssumption ==
    MaxHopsLimit \in 1..MaxU8 /\ DefaultHops \in 1..MaxHopsLimit /\ None \notin Nat

VARIABLES
    loop,       \* "connecting", "subscribed", "recv", "sleep", "compute", "error", "send"
    channel,    \* events not yet received
    lagged,     \* entries were overwritten since the last recv
    event,      \* the request in hand
    reply,      \* the result to be sent
    fate        \* history: what became of the marked request

dvm == <<loop, channel, lagged, event, reply, fate>>

NoEvent == [tags |-> <<>>, marked |-> FALSE]
Event == [tags : Message, marked : BOOLEAN]
Mark(e, f) == IF e.marked THEN f ELSE fate

-------------------------------------------------------------------------------
(* Reading a request. *)

\* A value of max_hops that is no u8, None here if it is no number, means the
\* default; a u8 out of range is clamped.
Hops(value) ==
    IF value = None \/ value > MaxU8 THEN DefaultHops
    ELSE IF value < 1 THEN 1
    ELSE IF value > MaxHopsLimit THEN MaxHopsLimit ELSE value

\* One tag.  An "i" tag holds a string, or several separated by colons; an empty
\* value is one empty string.
\* Mistake: "from" is appended like "to".
ReadTagAppending(tag, request) ==
    CASE tag[1] = "i" /\ Len(tag[2]) <= 2 -> [request EXCEPT !.inputs = @ \o tag[2]]
      [] tag[1] \in {"from", "to"}        -> [request EXCEPT !.inputs = @ \o <<tag[2]>>]
      [] tag[1] = "max_hops"              -> [request EXCEPT !.hops = Hops(tag[2])]
      [] OTHER                            -> request

ReadTag(tag, request) ==
    CASE tag[1] = "i" /\ Len(tag[2]) <= 2 -> [request EXCEPT !.inputs = @ \o tag[2]]
      [] tag[1] = "from"                  -> [request EXCEPT !.inputs = <<tag[2]>> \o @]
      [] tag[1] = "to"                    -> [request EXCEPT !.inputs = @ \o <<tag[2]>>]
      [] tag[1] = "max_hops"              -> [request EXCEPT !.hops = Hops(tag[2])]
      [] OTHER                            -> request

Read(tags) == FoldLeft(LAMBDA request, tag : ReadTag(tag, request),
                       [inputs |-> <<>>, hops |-> DefaultHops], tags)

Accepted(request) == Len(request.inputs) = 2 /\ ToSet(request.inputs) \subseteq Pubkey
Key(request) == [from |-> request.inputs[1], to |-> request.inputs[2], max_hops |-> request.hops]

\* A message is a sequence of tags, and what it asks for is a key of the cache.
ASSUME MessageAssumption ==
    \A m \in Message :
        /\ m \in Seq(ToSet(m))
        /\ \A k \in DOMAIN m : m[k][1] = "max_hops" => m[k][2] \in Nat \cup {None}
        /\ \A k \in DOMAIN m : m[k][1] = "i" => m[k][2] # <<>>
        /\ Accepted(Read(m)) => Key(Read(m)) \in Pair

-------------------------------------------------------------------------------
(* start. *)

Subscribe ==
    /\ loop = "connecting" /\ loop' = "subscribed"
    /\ UNCHANGED <<vars, channel, lagged, event, reply, fate>>

\* client.notifications(): the receiver gets what is sent from now on.
Listen ==
    /\ loop = "subscribed" /\ loop' = "recv"
    /\ UNCHANGED <<vars, channel, lagged, event, reply, fate>>

\* The client passes a request on to the receivers there are.
Arrive(e) ==
    /\ e.marked => fate = "none"
    /\ IF loop \in {"connecting", "subscribed"}
       THEN fate' = Mark(e, "unheard") /\ UNCHANGED <<channel, lagged>>
       ELSE IF Len(channel) < ChannelCapacity
       THEN channel' = Append(channel, e) /\ fate' = Mark(e, "queued") /\ UNCHANGED lagged
       ELSE /\ channel' = Append(Tail(channel), e) /\ lagged' = TRUE
            /\ fate' = IF Head(channel).marked THEN "overwritten" ELSE Mark(e, "queued")
    /\ UNCHANGED <<vars, loop, event, reply>>

RecvLagged ==
    /\ loop = "recv" /\ lagged
    /\ loop' = "sleep" /\ lagged' = FALSE
    /\ UNCHANGED <<vars, channel, event, reply, fate>>

Wake ==
    /\ loop = "sleep" /\ loop' = "recv"
    /\ UNCHANGED <<vars, channel, lagged, event, reply, fate>>

Recv ==
    /\ loop = "recv" /\ ~lagged /\ channel # <<>>
    /\ event' = Head(channel) /\ channel' = Tail(channel)
    /\ LET request == Read(Head(channel).tags) IN
       \/ /\ Accepted(request)
          /\ Ask(Server, {Key(request)}, FALSE)
          /\ loop' = "compute"
       \/ ~Accepted(request) /\ loop' = "error" /\ UNCHANGED vars
    /\ UNCHANGED <<lagged, reply, fate>>

\* The end of handle_request, whose error is only logged.
\* Mistake: an error ends the loop.
HandledOrStopped(how) ==
    /\ loop' = IF how = "failed" THEN "stopped" ELSE "recv"
    /\ event' = NoEvent /\ reply' = NoPair
    /\ fate' = Mark(event, how)
    /\ UNCHANGED <<channel, lagged>>

Handled(how) ==
    /\ loop' = "recv" /\ event' = NoEvent /\ reply' = NoPair
    /\ fate' = Mark(event, how)
    /\ UNCHANGED <<channel, lagged>>

Compute == loop = "compute" /\ Handle(Server) /\ pc'[Server] # "idle" /\ UNCHANGED dvm

Result ==
    /\ loop = "compute" /\ Respond(Server)
    /\ loop' = "send" /\ reply' = got[Server]
    /\ UNCHANGED <<channel, lagged, event, fate>>

Panicked == loop = "compute" /\ Collect(Server) /\ pc'[Server] = "idle" /\ Handled("failed")

\* send_event_builder, of a result or of an error, fails or not.
Send ==
    /\ loop \in {"send", "error"}
    /\ \E how \in {"answered", "failed"} : Handled(how)
    /\ UNCHANGED vars

-------------------------------------------------------------------------------
DvmInit ==
    /\ Init
    /\ loop = "connecting" /\ channel = <<>> /\ lagged = FALSE
    /\ event = NoEvent /\ reply = NoPair /\ fate = "none"

LoopStep ==
    Subscribe \/ Listen \/ RecvLagged \/ Wake \/ Recv \/ Compute \/ Result \/ Panicked \/ Send

Http == Request \ {Server}
HttpStep == PublishNode \/ CountNode \/ Update \/ Evict \/ \E r \in Http : Handle(r) \/ Client(r)
TaskStep == \E r \in Request : Work(r) \/ TaskPanics(r)

DvmNext ==
    \/ LoopStep
    \/ \E e \in Event : Arrive(e)
    \/ (HttpStep \/ TaskStep) /\ UNCHANGED dvm

\* The loop and the handlers are scheduled, tasks run, and a writer of the graph
\* leaves its critical section.
DvmSpec ==
    /\ DvmInit /\ [][DvmNext]_<<vars, dvm>>
    /\ WF_<<vars, dvm>>(LoopStep)
    /\ WF_<<vars, dvm>>(CountNode /\ UNCHANGED dvm)
    /\ \A r \in Http : WF_<<vars, dvm>>(Handle(r) /\ UNCHANGED dvm)
    /\ \A r \in Request : WF_<<vars, dvm>>(Work(r) /\ UNCHANGED dvm)

-------------------------------------------------------------------------------
(* Properties. *)

(* The three formats of docs/DVM.md, as declared there: two "i" tags in       *)
(* order, one "i" tag with both pubkeys, or "from" and "to" wherever they     *)
(* stand; max_hops apart.                                                     *)
Tagged(tags, name) == {k \in DOMAIN tags : tags[k][1] = name}
AsksFor(tags, from, to) ==
    LET i == Tagged(tags, "i")  f == Tagged(tags, "from")  t == Tagged(tags, "to") IN
    \/ /\ f = {} /\ t = {}
       /\ \/ \E j, k \in i : /\ j < k /\ i = {j, k}
                              /\ tags[j] = <<"i", <<from>> >> /\ tags[k] = <<"i", <<to>> >>
          \/ \E k \in i : i = {k} /\ tags[k] = <<"i", <<from, to>> >>
    \/ /\ i = {}
       /\ \E j \in f, k \in t : /\ f = {j} /\ tags[j] = <<"from", from>>
                              /\ t = {k} /\ tags[k] = <<"to", to>>

(* The depth asked for: the last max_hops if it is in range, and the default  *)
(* if there is none.                                                          *)
Honours(tags, hops) ==
    LET m == Tagged(tags, "max_hops") IN
    /\ m = {} => hops = DefaultHops
    /\ \A k \in m :
         (\A j \in m : j <= k) /\ tags[k][2] \in 1..MaxHopsLimit => hops = tags[k][2]

(* A request in a documented format is answered for its source and its        *)
(* target, in that direction, and with the depth it asks for if that is 1-5,  *)
(* another of 1-5 if not, in whatever order its tags come; an error is sent   *)
(* only to others.                                                            *)
AnswersTheQuestion ==
    \A from, to \in Pubkey : AsksFor(event.tags, from, to) =>
        /\ loop # "error"
        /\ loop = "send" => \E hops \in 1..MaxHopsLimit :
              /\ DOMAIN reply = {[from |-> from, to |-> to, max_hops |-> hops]}
              /\ Honours(event.tags, hops)

(* A request the receiver heard is answered, or its loss is logged: as an     *)
(* error of its handling or as a lag of the channel.  Neither a full budget   *)
(* of permits, nor a panic, nor an earlier request that failed makes the DVM  *)
(* deaf.                                                                      *)
HeardIsHandled == fate = "queued" ~> fate \in {"answered", "failed", "overwritten"}
===============================================================================
