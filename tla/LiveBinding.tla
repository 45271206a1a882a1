----------------------------- MODULE LiveBinding -----------------------------
(***************************************************************************)
(* One slot of the server across requests: the tokens its session holds,   *)
(* and the live bindings by which a later request continues from them.     *)
(*                                                                         *)
(* A session holds more than a client replays: reasoning, and the exact    *)
(* spelling of the sampled tool calls.  A binding names a position of the  *)
(* session, and is trusted when the session still stands there.  The disk  *)
(* cache is the one PrefixCache promises.                                  *)
(*                                                                         *)
(* Text is a sequence of letters; Thought is a sampled token of reasoning, *)
(* Noise one that only spells a tool call differently from its canonical   *)
(* form.  What both sides agree upon is the text without them.             *)
(***************************************************************************)
EXTENDS Integers, Sequences, SequencesExt, FiniteSets

CONSTANTS
  Letter,        \* tokens that both sides see
  Thought,       \* a token of hidden reasoning
  Noise,         \* a token that canonical tool calls do not have
  Settings,      \* the servers and conversations to look at: a set of records
                 \*   apis     the protocols of the clients
                 \*   opening  first messages, sequences of letters
                 \*   say      letters of the messages and answers that follow
                 \*   exact    are sampled tool calls replayed exactly?
                 \*   rewind   can the backend truncate a session in place (GLM)?
                 \*   tokens   the context
                 \*   max      bound on the requests of a behaviour
  None

Api == {"responses", "anthropic", "chat"}

Token == Letter \cup {Thought, Noise}

\* responses_live, anthropic_live, thinking_live: the position, the transcript
\* the client will replay, the tool call, and what the session held then.
Binding == [pos : Nat, visible : Seq(Token), id : Nat \cup {None}, of : Seq(Token)]

ASSUME LiveAssumption ==
  /\ Settings \subseteq
       [apis : SUBSET Api, opening : SUBSET (Seq(Letter) \ {<<>>}), say : SUBSET Letter,
        exact : BOOLEAN, rewind : BOOLEAN, tokens : Nat, max : Nat]
  /\ {Thought, Noise, None} \cap Letter = {}
  /\ Cardinality({Thought, Noise, None}) = 3
  /\ None \notin Binding

VARIABLES
  session,    \* [toks, valid]: the checkpoint, and is it usable?
  responses,  \* slot->responses_live, or None
  anthropic,  \* slot->anthropic_live, or None
  thinking,   \* slot->thinking_live, or None
  disk,       \* text key -> tokens of the checkpoint stored under it
  answers,    \* what clients hold: the transcripts of the answers sent
  queued,     \* the request that waits for the slot, or None
  job,        \* the request being served, or None
  pc,         \* the phase of generate_job_inner
  env,        \* the setting
  jobs,       \* the requests so far, whose numbers are also their tool-call ids
  broken      \* has a prefill failed half way in this behaviour?

bindings == <<responses, anthropic, thinking>>
counts == <<env, jobs>>
vars == <<session, bindings, disk, answers, queued, job, pc, counts, broken>>

\* The tokens of a text that are in S.
Only(S, t) ==
  LET kept[n \in 0 .. Len(t)] ==
        IF n = 0 THEN <<>>
        ELSE IF t[n] \in S THEN Append(kept[n - 1], t[n]) ELSE kept[n - 1]
  IN kept[Len(t)]

\* What client and server agree upon, what a client sees, and what is left of a
\* sampled answer in canonical form.
Agreed(t) == Only(Letter, t)
Visible(t) == Only(Token \ {Thought}, t)
Canonical(t) == Only(Token \ {Noise}, t)
Pos == Len(session.toks)
From(t, n) == SubSeq(t, n + 1, Len(t))

\* ds4_session_common_prefix: nothing is shared with an invalid session.
Common(p) ==
  IF session.valid THEN Len(LongestCommonPrefix({session.toks, p})) ELSE 0

------------------------------------------------------------------------------
BindingInit ==
  /\ session = [toks |-> <<>>, valid |-> FALSE]
  /\ responses = None /\ anthropic = None /\ thinking = None
  /\ disk = <<>>
  /\ answers = {}
  /\ queued = None /\ job = None /\ pc = "idle"
  /\ env \in Settings /\ jobs = 0
  /\ broken = FALSE

------------------------------------------------------------------------------
(* Requests.  A client opens a conversation or answers a message it has.  Of  *)
(* a tool result it may send the tail alone; the parser then refuses it       *)
(* unless the call is bound at that moment.                                   *)

Bound(api) == IF api = "responses" THEN responses ELSE anthropic

BoundId(api, id) == id # None /\ Bound(api) # None /\ Bound(api).id = id

\* The texts by which the server may render what the client replays.
Replays(text) == {text, Agreed(text)}

NewRequest(r) ==
  /\ queued = None
  /\ jobs < env.max
  /\ Len(r.prompt) < env.tokens
  /\ queued' = r /\ jobs' = r.no
  /\ UNCHANGED <<session, bindings, disk, answers, job, pc, env, broken>>

Open(api, p, tools) ==
  NewRequest([api |-> api, prompt |-> p, whole |-> TRUE, id |-> None,
              suffix |-> <<>>, tools |-> tools, no |-> jobs + 1])

Follow(a, x, whole, tools) ==
  \E text \in Replays(a.text) :
    /\ whole \/ (a.api # "chat" /\ BoundId(a.api, a.id))
    /\ NewRequest([api |-> a.api, prompt |-> text \o <<x>>, whole |-> whole,
                   id |-> IF a.api = "chat" THEN None ELSE a.id,
                   suffix |-> <<x>>, tools |-> tools, no |-> jobs + 1])

------------------------------------------------------------------------------
(* Where the prefill starts: the choices of generate_job_inner, in order.     *)

\* Only the tail is rendered of a request that does not send the whole.
Rendered(r) == IF r.whole THEN r.prompt ELSE r.suffix

\* <api>_live_visible_prefix_prompt: a strict prefix, at this very position.
SeesPrefix(b, r) ==
  /\ b # None
  /\ b.pos = Pos
  /\ b.visible # <<>>
  /\ IsStrictPrefix(b.visible, Rendered(r))

\* <api>_live_continuation_prompt
AnswersCall(api, r) ==
  /\ r.api = api
  /\ BoundId(api, r.id)
  /\ Bound(api).pos = Pos

\* A hit at position 0 counts as a miss.
Source(r) ==
  LET live == Pos > 0 IN
  IF live /\ r.api = "responses" /\ SeesPrefix(responses, r) THEN "visible" ELSE
  IF live /\ AnswersCall("responses", r) THEN "call" ELSE
  IF live /\ AnswersCall("anthropic", r) THEN "anthropic call" ELSE
  IF ~r.whole THEN "refused" ELSE
  IF /\ env.rewind /\ Len(r.prompt) > 1 /\ Len(r.prompt) < Pos
     /\ Common(r.prompt) = Len(r.prompt) THEN "rewind" ELSE
  IF live /\ Common(r.prompt) = Pos THEN "tokens" ELSE
  IF live /\ r.api # "responses" /\ SeesPrefix(thinking, r) THEN "thinking" ELSE
  IF live /\ IsPrefix(session.toks, r.prompt) THEN "text" ELSE "miss"

\* A bug: what follows is cut at the session's position, not at the text's.
EffectiveByPosition(r, source) ==
  CASE source \in {"visible", "thinking"} -> session.toks \o From(Rendered(r), Pos)
    [] source \in {"call", "anthropic call"} -> session.toks \o r.suffix
    [] OTHER -> r.prompt

\* The prompt to prefill: the live tokens and the text that follows them.
Effective(r, source) ==
  CASE source = "visible" ->
         session.toks \o From(Rendered(r), Len(responses.visible))
    [] source \in {"call", "anthropic call"} -> session.toks \o r.suffix
    [] source = "thinking" -> session.toks \o From(r.prompt, Len(thinking.visible))
    [] OTHER -> r.prompt

Refuse ==
  /\ pc = "idle" /\ queued # None
  /\ Source(queued) = "refused"
  /\ queued' = None
  /\ UNCHANGED <<session, bindings, disk, answers, job, pc, counts, broken>>

Start ==
  /\ pc = "idle" /\ queued # None
  /\ LET source == Source(queued)
         eff == Effective(queued, source)
     IN /\ source # "refused"
        /\ job' = [req |-> queued, source |-> source, eff |-> eff, file |-> None]
        /\ session' = IF source = "rewind"
                      THEN [session EXCEPT !.toks = Front(queued.prompt)]
                      ELSE session
        /\ pc' = IF source = "miss" THEN "miss" ELSE "prefill"
  /\ queued' = None
  /\ UNCHANGED <<bindings, disk, answers, counts, broken>>

------------------------------------------------------------------------------
(* The disk.  Files may disappear whenever something is stored.               *)

Shrink(d) == {Restrict(d, S) : S \in SUBSET DOMAIN d}

\* A file that is already there for the key is kept.
Store(d, key, toks) ==
  [k \in DOMAIN d \cup {key} |-> IF k \in DOMAIN d THEN d[k] ELSE toks]

Hits(p) == {k \in DOMAIN disk : k # <<>> /\ IsPrefix(k, p)}
Best(p) == CHOOSE k \in Hits(p) \cup {<<>>} : \A l \in Hits(p) : Len(l) <= Len(k)

\* kv_cache_store_current: the visible text is the key where a binding is at
\* the session's position.
CurrentKey ==
  IF responses # None /\ responses.pos = Pos /\ responses.visible # <<>>
  THEN responses.visible
  ELSE IF thinking # None /\ thinking.pos = Pos THEN thinking.visible
       ELSE session.toks

StoreCurrent ==
  /\ pc = "miss" /\ job.file = None
  /\ IF Pos > 0 /\ session.valid
     THEN \E d \in Shrink(disk) : disk' \in {d, Store(d, CurrentKey, session.toks)}
     ELSE UNCHANGED disk
  /\ job' = [job EXCEPT !.file = "stored"]
  /\ UNCHANGED <<session, bindings, answers, queued, pc, counts, broken>>

\* A payload that cannot be read leaves the session invalid.
LoadDisk ==
  /\ pc = "miss" /\ job.file = "stored"
  /\ pc' = "prefill"
  /\ \/ /\ Hits(job.req.prompt) = {}
        /\ job' = [job EXCEPT !.file = None]
        /\ UNCHANGED session
     \/ /\ Hits(job.req.prompt) # {}
        /\ LET k == Best(job.req.prompt) IN
             \/ /\ session' = [toks |-> disk[k], valid |-> TRUE]
                /\ job' = [req |-> job.req, source |-> "disk", file |-> k,
                           eff |-> disk[k] \o From(job.req.prompt, Len(k))]
             \/ /\ session' = [toks |-> <<>>, valid |-> FALSE]
                /\ job' = [job EXCEPT !.file = None]
  /\ UNCHANGED <<bindings, disk, answers, queued, counts, broken>>

------------------------------------------------------------------------------
(* Prefill.                                                                   *)

\* request_live_state_clear
ClearAll == responses' = None /\ anthropic' = None /\ thinking' = None

EndJob == job' = None /\ pc' = "idle"

\* The frontiers a prefill of eff passes through: it goes on from a valid
\* session that eff extends, and else from the start.
Frontiers(eff) ==
  LET from == IF session.valid /\ IsPrefix(session.toks, eff) THEN Pos ELSE 0
  IN {SubSeq(eff, 1, n) : n \in from .. Len(eff)}

\* Cold and continued checkpoints are taken at frontiers of the prefill.
StoredOnTheWay(eff) ==
  {disk} \cup
  {Store(d, f, f) : d \in Shrink(disk), f \in Frontiers(eff) \ {<<>>}}

\* A bug: a job that continues from nothing leaves the bindings.
ForgetNone == UNCHANGED bindings

\* "Once a non-live request wins, old protocol live bindings are stale."
ForgetOthers ==
  /\ IF job.source \in {"visible", "call"} THEN UNCHANGED responses ELSE responses' = None
  /\ IF job.source = "anthropic call" THEN UNCHANGED anthropic ELSE anthropic' = None
  /\ IF job.source = "thinking" THEN UNCHANGED thinking ELSE thinking' = None

Prefilled ==
  /\ pc = "prefill"
  /\ Len(job.eff) < env.tokens
  /\ session' = [toks |-> job.eff, valid |-> TRUE]
  /\ disk' \in StoredOnTheWay(job.eff)
  /\ ForgetOthers
  /\ pc' = "decode"
  /\ UNCHANGED <<answers, queued, job, counts, broken>>

\* The prefill ends at frontier f.  kv_cache_discard_failed_disk_entry, when
\* the prompt came from disk.
StopsAt(f, valid) ==
  \E d \in StoredOnTheWay(f) :
    IF job.source = "disk"
    THEN /\ session' = [toks |-> <<>>, valid |-> FALSE]
         /\ disk' = Restrict(d, DOMAIN d \ {job.file})
    ELSE /\ session' = [toks |-> f, valid |-> valid /\ f # <<>>]
         /\ disk' = d

\* The backend fails at some frontier: the bindings stay as they are.
PrefillFails ==
  /\ pc = "prefill"
  /\ \E f \in Frontiers(job.eff) \ {job.eff}, v \in BOOLEAN : StopsAt(f, v)
  /\ EndJob
  /\ broken' = TRUE
  /\ UNCHANGED <<bindings, answers, queued, counts>>

\* The client leaves during the prefill, or is found gone after it.
PrefillCancelled ==
  /\ pc = "prefill"
  /\ \/ \E f \in Frontiers(job.eff) \ {job.eff} : StopsAt(f, TRUE)
     \/ /\ session' = [toks |-> job.eff, valid |-> TRUE]
        /\ disk' \in StoredOnTheWay(job.eff)
  /\ ClearAll
  /\ EndJob
  /\ UNCHANGED <<answers, queued, counts, broken>>

------------------------------------------------------------------------------
(* The answer.                                                                *)

\* Tokens of an answer: perhaps reasoning, then text or a tool call.
Sampled(x, call) ==
  {<<x>>, <<Thought, x>>} \cup
  IF call THEN {<<x, Noise>>, <<Thought, x, Noise>>} ELSE {}

Generate(g, call) ==
  /\ pc = "decode"
  /\ Len(session.toks \o g) <= env.tokens
  /\ session' = [session EXCEPT !.toks = @ \o g]
  /\ job' = [job EXCEPT !.file = [said |-> g, call |-> call]]
  /\ pc' = "publish"
  /\ UNCHANGED <<bindings, disk, answers, queued, counts, broken>>

\* A stop sequence of the client ends the answer inside a token: the session
\* cannot be kept.
StopSequence(x) ==
  /\ pc = "decode"
  /\ session' = [toks |-> <<>>, valid |-> FALSE]
  /\ job' = [job EXCEPT !.file = [said |-> <<x>>, call |-> FALSE]]
  /\ pc' = "publish"
  /\ UNCHANGED <<bindings, disk, answers, queued, counts, broken>>

\* Out of tokens: the answer is sent, but nothing binds its continuation.
Truncated(x) ==
  /\ pc = "decode"
  /\ session' = [session EXCEPT !.toks = Append(@, x)]
  /\ answers' = answers \cup
       {[api |-> job.req.api, text |-> Append(job.req.prompt, x), id |-> None]}
  /\ ClearAll
  /\ EndJob
  /\ UNCHANGED <<disk, queued, counts, broken>>

\* The client leaves, before or while tokens are decoded.
CancelledInDecode ==
  /\ pc \in {"decode", "publish"}
  /\ ClearAll
  /\ EndJob
  /\ UNCHANGED <<session, disk, answers, queued, counts, broken>>

Remember(visible, id) ==
  [pos |-> Pos, visible |-> visible, id |-> id, of |-> session.toks]

\* The transcript the client will replay after this answer.
Transcript ==
  LET said == Visible(job.file.said) IN
  job.req.prompt \o IF env.exact THEN said ELSE Agreed(said)

\* A bug: Responses answers are made canonical too, after they were bound.
CanonicalAlways(call) ==
  IF call /\ ~env.exact
  THEN job.req.prompt \o Canonical(job.file.said)
  ELSE <<>>

\* should_canonicalize_tool_checkpoint: the prompt and the canonical tool call.
CanonicalForm(call) ==
  IF call /\ job.req.api # "responses" /\ ~env.exact
  THEN job.req.prompt \o Canonical(job.file.said)
  ELSE <<>>

Publish ==
  /\ pc = "publish"
  /\ LET call == job.file.call
         id == IF call THEN job.req.no ELSE None
         api == job.req.api
     IN /\ responses' = IF api = "responses" THEN Remember(Transcript, id) ELSE responses
        /\ anthropic' = IF api = "anthropic"
                        THEN IF call THEN Remember(<<>>, id) ELSE None
                        ELSE anthropic
        /\ thinking' = IF ~call /\ ~job.req.tools THEN Remember(Transcript, None) ELSE None
        /\ job' = [job EXCEPT !.file =
                     [text |-> Transcript, id |-> id, canonical |-> CanonicalForm(call)]]
  /\ pc' = "send"
  /\ UNCHANGED <<session, disk, answers, queued, counts, broken>>

\* canonicalize_tool_checkpoint: nothing to do, or more than the answer differs.
KeepsSampled ==
  LET c == job.file.canonical IN
  \/ c = <<>> \/ c = session.toks
  \/ Common(c) < Len(job.req.prompt)

\* Extended in place, or rebuilt: from the best checkpoint if it can be read.
Canonicalize ==
  /\ pc = "send" /\ ~KeepsSampled
  /\ LET c == job.file.canonical
         loaded == IF Common(c) = Pos THEN {}
                   ELSE {disk[k] \o From(c, Len(k)) : k \in {Best(c)} \cap Hits(c)}
     IN \E eff \in {c} \cup loaded :
          \/ session' = [toks |-> eff, valid |-> TRUE] /\ UNCHANGED broken
          \/ /\ \E n \in 0 .. Len(eff) - 1, v \in BOOLEAN :
                  session' = [toks |-> SubSeq(eff, 1, n), valid |-> v /\ n > 0]
             /\ broken' = TRUE
  /\ job' = [job EXCEPT !.file.canonical = <<>>]
  /\ UNCHANGED <<bindings, disk, answers, queued, pc, counts>>

Send ==
  /\ pc = "send" /\ KeepsSampled
  /\ \/ /\ answers' = answers \cup
             {[api |-> job.req.api, text |-> job.file.text, id |-> job.file.id]}
        /\ UNCHANGED bindings
     \/ ClearAll /\ UNCHANGED answers
  /\ EndJob
  /\ UNCHANGED <<session, disk, queued, counts, broken>>

------------------------------------------------------------------------------
Answering ==
  \E x \in env.say :
    \/ \E call \in BOOLEAN : \E g \in Sampled(x, call) : Generate(g, call)
    \/ StopSequence(x)
    \/ Truncated(x)

BindingNext ==
  \/ \E api \in env.apis, p \in env.opening, tools \in BOOLEAN : Open(api, p, tools)
  \/ \E a \in answers, x \in env.say, whole, tools \in BOOLEAN :
       Follow(a, x, whole, tools)
  \/ Refuse \/ Start \/ StoreCurrent \/ LoadDisk
  \/ Prefilled \/ PrefillFails \/ PrefillCancelled
  \/ Answering \/ CancelledInDecode
  \/ Publish \/ Canonicalize \/ Send

BindingSpec == BindingInit /\ [][BindingNext]_vars

------------------------------------------------------------------------------
(* Properties.  broken excuses what follows a prefill that failed half way:   *)
(* LiveFrontierIsExact says what is not true then.                            *)

\* The answer is sampled after the transcript of the request itself, whichever
\* way the session came to hold it (generate_job_inner, every cache source).
AnswersItsRequest ==
  pc = "decode" => broken \/ Agreed(session.toks) = Agreed(job.req.prompt)

\* A binding that a request would trust, because the session stands at its
\* position, was made of the conversation the session holds.
BindingFollowsSession ==
  pc \in {"idle", "send"} /\ Pos > 0 =>
    \A b \in {responses, anthropic, thinking} \ {None} :
      b.pos = Pos => broken \/ Agreed(b.of) = Agreed(session.toks)

\* When the request of a Responses client ends with an answer that was not cut
\* short, the binding made for it stands at the session's position: no
\* canonicalization has moved the session since. (A truncated answer is bound
\* to nothing; after a stop sequence both stand at 0, where none is continued.)
AnswerIsContinuable ==
  [][ (pc = "send" /\ pc' = "idle" /\ job.req.api = "responses" /\ answers' # answers)
        => responses' # None /\ responses'.pos = Len(session'.toks) ]_vars

\* The comment on responses_live_continuation_prompt: a binding is used "only
\* when the remembered live frontier and call-id set match exactly".
LiveFrontierIsExact ==
  pc = "decode" /\ job.source \in {"visible", "call", "anthropic call"} =>
    Agreed(session.toks) = Agreed(job.req.prompt)

------------------------------------------------------------------------------
(* The inductive invariant: everything that holds a conversation (session,    *)
(* bindings, checkpoints, answers, requests) agrees, until a prefill fails.   *)

Text == Seq(Token)

Req == [api : Api, prompt : Text \ {<<>>}, whole : BOOLEAN, id : Nat \cup {None},
        suffix : Text, tools : BOOLEAN, no : Nat]
Answer == [api : Api, text : Text, id : Nat \cup {None}]

Typed ==
  /\ env \in Settings /\ jobs \in Nat
  /\ session \in [toks : Text, valid : BOOLEAN]
  /\ DOMAIN disk \subseteq Text /\ \A k \in DOMAIN disk : disk[k] \in Text
  /\ responses \in Binding \cup {None} /\ anthropic \in Binding \cup {None}
  /\ thinking \in Binding \cup {None}
  /\ answers \subseteq Answer
  /\ queued \in Req \cup {None}
  /\ pc # "idle" =>
       /\ job = [req |-> job.req, source |-> job.source, eff |-> job.eff, file |-> job.file]
       /\ job.req \in Req /\ job.eff \in Text
  /\ pc = "publish" => job.file \in [said : Text, call : BOOLEAN]
  /\ pc = "send" => job.file \in [text : Text, id : Nat \cup {None}, canonical : Text]

Live == {responses, anthropic, thinking} \ {None}

\* Between the binding of a Responses answer and its delivery nothing moves the
\* session: its answer is never made canonical.
Continues ==
  pc = "send" /\ job.req.api = "responses" =>
    /\ responses # None
    /\ responses.pos = Pos
    /\ job.file.canonical = <<>>

\* A checkpoint on disk is of the text it is filed under.
Filed(d) == \A k \in DOMAIN d : Agreed(d[k]) = Agreed(k)
KeysAgree == Filed(disk)

\* Requests are numbered as they come, and their answers' calls after them.
Numbered ==
  /\ queued # None => queued.no <= jobs
  /\ pc # "idle" => /\ job.req.no <= jobs
                    /\ queued # None => job.req.no < queued.no
  /\ \A a \in answers :
       a.id # None =>
         /\ a.id <= jobs
         /\ queued # None => a.id < queued.no
         /\ pc # "idle" => a.id < job.req.no
         /\ \A b \in Live : b.id = a.id => Agreed(b.of) = Agreed(a.text)

\* A request that names a call answers what the client was sent with it.
Recalled(r) ==
  /\ ~r.whole => Len(r.suffix) = 1
  /\ r.id # None =>
       \E a \in answers :
         a.id = r.id /\ Agreed(r.prompt) = Agreed(a.text) \o Agreed(r.suffix)

\* A binding is of what the session holds.
Follows(b) ==
  /\ Agreed(b.of) = Agreed(session.toks)
  /\ Pos > 0 /\ b.visible # <<>> => Agreed(b.visible) = Agreed(session.toks)

LiveFollow ==
  /\ pc \in {"idle", "miss", "send"} => \A b \in Live : Follows(b)
  /\ thinking # None => thinking.visible # <<>>
  /\ pc \in {"decode", "publish"} =>
       /\ responses # None => job.req.api = "responses"
       /\ anthropic # None => job.req.api = "anthropic"

\* In each phase the slot serves the conversation of its request.
Serves ==
  /\ pc \in {"miss", "prefill"} =>
       /\ Agreed(job.eff) = Agreed(job.req.prompt)
       /\ job.source \in {"visible", "call"} => job.req.api = "responses"
       /\ job.source = "anthropic call" => job.req.api = "anthropic"
  /\ pc = "decode" => Agreed(session.toks) = Agreed(job.req.prompt)
  /\ pc = "publish" =>
       \/ session.toks = <<>> /\ ~job.file.call
       \/ /\ Pos > 0
          /\ Agreed(session.toks) = Agreed(job.req.prompt) \o Agreed(job.file.said)
  /\ pc = "send" =>
       /\ job.file.id # None =>
            job.file.id = job.req.no /\ Agreed(job.file.text) = Agreed(session.toks)
       /\ job.file.canonical # <<>> =>
            Pos > 0 /\ Agreed(job.file.canonical) = Agreed(session.toks)

\* Everything holds the conversation it should.
Agree == KeysAgree /\ Numbered /\ (queued # None => Recalled(queued)) /\ LiveFollow /\ Serves

LiveInv == Typed /\ Continues /\ (broken = TRUE \/ Agree)

==============================================================================
