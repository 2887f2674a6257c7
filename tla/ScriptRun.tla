----------------------------- MODULE ScriptRun -----------------------------
(***************************************************************************)
(* One request's run through the site's scripts (script.rs): the entry of  *)
(* each script in turn until one of them produces an output, calls between *)
(* scripts on a stack of execution contexts (helpers/call.rs), the helpers *)
(* that produce outputs or errors (helpers/generic.rs, helpers/caddy.rs),  *)
(* the password check that is suspended while a worker thread hashes, and  *)
(* the response hooks run over the answer.  A script is whatever program:  *)
(* it may call any helper, return or trap at any point.                    *)
(***************************************************************************)
EXTENDS Text

CONSTANTS
  Scripts,        \* the names of the scripts, in the order they are tried
  HasEntry,       \* those with a request entry
  Callable,       \* <<script, function>> pairs that exist
  Asked,          \* <<script, function>> pairs that are called or hooked
  MaxCallDepth,   \* MAX_CALL_DEPTH
  MaxMem,         \* max_memory_footprint, in units of one allocation
  MaxBuffered,    \* max_buffered_body_size
  Limits,         \* arguments of zs_req_body_limit
  BodyLen,        \* the length of the request's body
  CredentialSet,  \* what the Authorization header may carry: <<user, password>> or <<>>
  Accounts,       \* configured user -> password
  FakePassword,   \* the password behind the hash verified for unknown users
  Statuses,       \* status codes a script asks for
  MaxSteps        \* bound: helper calls of one request

ASSUME NatAssumption == {MaxCallDepth, MaxMem, MaxBuffered, BodyLen, MaxSteps} \cup Limits \subseteq Nat

VARIABLES
  next,      \* scripts still to be tried
  stack,     \* execution contexts, the running one last
  shared,    \* what every context of the request shares by reference
  res,       \* the response context, while hooks run
  before,    \* the response context as it was before the running hook
  todo,      \* hooks still to be run
  outcome,   \* the ScriptOutcome
  phase,     \* "scripts", "hooks" or "done"
  steps

runVars == <<next, stack, shared, res, before, todo, outcome, phase, steps>>

InHook == phase = "hooks"
Top == stack[Len(stack)]

Ctx(script, depth) ==
  [script |-> script, depth |-> depth, resp |-> None, proxy |-> None, files |-> FALSE, abort |-> FALSE,
   encode |-> FALSE, mem |-> 0, reply |-> None, answer |-> None, waits |-> "no"]

NoRes == [status |-> 0, hdrs |-> {}, goOn |-> FALSE]
NoOutcome == [resp |-> None, proxy |-> None, files |-> FALSE, abort |-> FALSE, encode |-> FALSE, failed |-> FALSE]

RunInit ==
  /\ next = Scripts /\ stack = <<>> /\ todo = <<>> /\ outcome = None /\ phase = "scripts" /\ steps = 0
  /\ res = NoRes /\ before = NoRes
  /\ \E a \in CredentialSet :
     shared = [auth |-> a, error |-> None, user |-> None, early |-> {}, hooks |-> <<>>, limit |-> None,
               readMax |-> MaxBuffered, body |-> "pending", encode |-> FALSE]

(***************************************************************************)
(* One helper call of the running context: it replaces the context and the *)
(* shared state.  A helper that returns Err stops the program (Trapped).   *)
(***************************************************************************)
Running == stack # <<>> /\ Top.waits = "no"
Calling == Running /\ steps < MaxSteps
Counted == steps' = steps + 1
Becomes(c) == stack' = [stack EXCEPT ![Len(stack)] = c]
Answers(c, a) == Becomes([c EXCEPT !.answer = Some(a)])

Finish(o) == /\ outcome' = Some(o) /\ todo' = IF o.abort THEN <<>> ELSE shared.hooks
             /\ phase' = IF o.abort \/ shared.hooks = <<>> THEN "done" ELSE "hooks"
             /\ res' = [NoRes EXCEPT !.status = IF o.resp # None THEN o.resp[1].status ELSE 200, !.hdrs = {"up"}]
             /\ stack' = <<>> /\ UNCHANGED <<next, before>>

\* A reply: the action, and the status and headers of a respond action.
Reply(action) == [action |-> action, status |-> 200, hdrs |-> {}]
ServerError == [status |-> 500, by |-> 0, script |-> stack[1].script, hdrs |-> {}]

keep_failed_hook == stack' = <<>> /\ UNCHANGED <<next, res, before, todo, outcome, phase>>
HookFails == stack' = <<>> /\ res' = before /\ UNCHANGED <<next, before, todo, outcome, phase>>

\* The program of the n-th context fails: a callee's caller learns of it, a hook
\* is undone, and the entry of a script makes the request fail.
TrapAt(n) ==
  CASE n > 1 -> /\ stack' = [SubSeq(stack, 1, n - 1) EXCEPT ![n - 1].reply = Some(Reply("failed"))]
                /\ UNCHANGED <<next, res, before, todo, outcome, phase>>
    [] n = 1 /\ InHook -> HookFails
    [] OTHER -> Finish([NoOutcome EXCEPT !.resp = Some(ServerError), !.failed = TRUE])
Trap == TrapAt(Len(stack))

Others == <<next, res, before, todo, outcome, phase>>
Trapped == Counted /\ Trap /\ UNCHANGED shared

\* The program faults, exceeds its budget or calls a helper with a bad handle.
Faults == Running /\ Trap /\ UNCHANGED <<shared, steps>>

alloc_memory_footprint(c) == c.mem + 1 <= MaxMem
Alloc(c) == [c EXCEPT !.mem = @ + 1]

\* A helper that must first allocate: without room it fails and nothing else happened.
Allocating(Do(_)) == IF alloc_memory_footprint(Top) THEN Counted /\ Do(Alloc(Top)) ELSE Trapped

Valid(status) == status \in 100..999
Response(c, status, hdrs) == [status |-> status, by |-> c.depth, script |-> c.script, hdrs |-> hdrs]

(***************************************************************************)
(* Outputs (helpers/generic.rs, helpers/caddy.rs).                         *)
(***************************************************************************)
abort_flag_only(c) == [c EXCEPT !.abort = TRUE]
abort_and_clear_outputs(c) ==
  [c EXCEPT !.abort = TRUE, !.resp = None, !.proxy = None, !.files = FALSE, !.encode = FALSE]

h_respond(status) ==
  Calling /\ Counted /\ Becomes([Top EXCEPT !.resp = Some(Response(Top, status, {}))]) /\ UNCHANGED <<shared, Others>>

h_reverse_proxy ==
  Calling /\ IF Top.resp # None \/ Top.proxy # None
             THEN Trapped
             ELSE Counted /\ Becomes([Top EXCEPT !.proxy = Some(Top.depth)]) /\ UNCHANGED <<shared, Others>>

SetError(status) == shared' = [shared EXCEPT !.error = Some(status)]

\* result: 0 served, 1 a pass_thru miss, 2 a file system that is not supported.
h_file_server(result) ==
  Calling /\ IF Top.resp # None \/ Top.proxy # None \/ Top.files
             THEN Trapped
             ELSE /\ Counted /\ UNCHANGED Others
                  /\ Answers([Top EXCEPT !.files = (result = 0)], result)
                  /\ IF result = 2 THEN SetError(404) ELSE UNCHANGED shared

h_abort == Calling /\ IF InHook THEN Trapped
                      ELSE Counted /\ Becomes(abort_and_clear_outputs(Top)) /\ UNCHANGED <<shared, Others>>

h_response_clear == Calling /\ Counted /\ Becomes([Top EXCEPT !.resp = None]) /\ UNCHANGED <<shared, Others>>

h_caddy_encode == Calling /\ Counted /\ Becomes([Top EXCEPT !.encode = TRUE]) /\ UNCHANGED <<shared, Others>>

\* The headers set so far go into the response, and the handler's own replace them.
Waiting == {<<n, "early">> : n \in shared.early \ {"content-length"}}
Replacing(hdrs, names) == {h \in hdrs : h[1] \notin names} \cup {<<n, "config">> : n \in names}

Respond(status, hdrs) ==
  Calling /\ IF InHook \/ ~Valid(status) \/ status = 103 THEN Trapped
             ELSE Allocating(LAMBDA c : /\ Becomes([c EXCEPT !.resp = Some(Response(c, status, hdrs))])
                                        /\ UNCHANGED <<shared, Others>>)
h_caddy_respond(status) == Respond(status, Waiting)
h_caddy_respond_static(status, close, names) ==
  Respond(status, Replacing(Waiting \cup (IF close THEN {<<"connection", "close">>} ELSE {}), names))

h_caddy_set_error(status) ==
  Calling /\ IF ~Valid(status) THEN Trapped
             ELSE Counted /\ SetError(status) /\ UNCHANGED <<stack, Others>>

\* Response headers go to the response in a hook and wait for the response otherwise.
h_caddy_response_headers(name) ==
  /\ Calling /\ Counted /\ UNCHANGED <<stack, next, before, todo, outcome, phase>>
  /\ IF InHook THEN res' = [res EXCEPT !.hdrs = @ \cup {name}] /\ UNCHANGED shared
               ELSE shared' = [shared EXCEPT !.early = @ \cup {name}] /\ UNCHANGED res

(***************************************************************************)
(* Hooks, body limit, body (call.rs, generic.rs, script.rs BodySource).    *)
(* Hooks registered by a hook go to a list of their own that nobody runs.  *)
(***************************************************************************)
h_res_hook(f) ==
  /\ Calling /\ Counted /\ UNCHANGED <<stack, Others>>
  /\ shared' = IF InHook THEN shared ELSE [shared EXCEPT !.hooks = Append(@, f)]

h_res_hooks_clear ==
  /\ Calling /\ Counted /\ UNCHANGED <<stack, Others>>
  /\ shared' = IF InHook THEN shared ELSE [shared EXCEPT !.hooks = <<>>]

\* A limit of 0 in force is taken for none.
set_max_size(current, n) == IF current = 0 \/ n < current THEN n ELSE current

Lowest(current, n) == IF current = None \/ n < current[1] THEN Some(n) ELSE current

\* A hook has a body source and a limit cell of its own.
h_req_body_limit(n) ==
  /\ Calling /\ Counted /\ UNCHANGED Others
  /\ Answers(Top, IF BodyLen > n THEN 1 ELSE 0)
  /\ shared' = IF InHook THEN shared
               ELSE [shared EXCEPT !.readMax = set_max_size(@, n), !.limit = Lowest(@, n)]

\* The first read takes the reader out and waits for it, with the source empty;
\* the reader fails, or collects the body under the limit in force by then.
BodySource_read ==
  /\ Calling /\ Counted /\ UNCHANGED Others
  /\ IF InHook \/ shared.body # "pending" THEN UNCHANGED <<stack, shared>>
     ELSE Becomes([Top EXCEPT !.waits = "body"]) /\ shared' = [shared EXCEPT !.body = "empty"]
BodyRead(failed) ==
  /\ stack # <<>> /\ Top.waits = "body" /\ UNCHANGED <<steps, Others>>
  /\ Becomes([Top EXCEPT !.waits = "no"])
  /\ shared' = [shared EXCEPT !.body = IF failed THEN "empty"
                                       ELSE IF BodyLen > shared.readMax THEN "too large" ELSE "ready"]

(***************************************************************************)
(* Response context helpers (helpers/response.rs, copy_response_headers).  *)
(***************************************************************************)
OnResponse(r) == /\ Calling
                 /\ IF InHook THEN Counted /\ res' = r /\ UNCHANGED <<stack, shared, next, before, todo, outcome, phase>>
                              ELSE Trapped

h_res_set_status(status) ==
  IF Valid(status) THEN OnResponse([res EXCEPT !.status = status]) ELSE Calling /\ Trapped

h_res_continue_request == OnResponse([res EXCEPT !.goOn = TRUE])

h_caddy_copy_response_headers == OnResponse([res EXCEPT !.hdrs = @ \cup {"up"}])

(***************************************************************************)
(* Calls between scripts (helpers/call.rs).  The callee gets a context of  *)
(* its own; its reply is the JSON it returns.                              *)
(***************************************************************************)
h_call(f) ==
  /\ Calling /\ Counted /\ UNCHANGED <<shared, Others>>
  /\ stack' = IF Top.depth >= MaxCallDepth \/ f \notin Callable
              THEN [stack EXCEPT ![Len(stack)].reply = Some(Reply("failed"))]
              ELSE Append(stack, Ctx(f[1], Top.depth + 1))

Replies == {"failed", "not an object", "continue", "respond", "bad respond", "proxy", "empty proxy", "abort",
            "error", "bad error", "unknown", "adopt_response"}

\* What an adopt_response reply turns into: the callee's own output.  The caller
\* judges its status as that of any respond action.
response_to_caddy_call_action(r) ==
  [action |-> IF Valid(r.status) /\ r.status # 103 THEN "respond" ELSE "bad respond",
   status |-> r.status, hdrs |-> r.hdrs]
AdoptResponse(callee) ==
  CASE callee.resp # None -> response_to_caddy_call_action(callee.resp[1])
    [] callee.resp = None /\ callee.proxy # None -> Reply("proxy")
    [] callee.resp = None /\ callee.proxy = None /\ callee.abort -> Reply("abort")
    [] OTHER -> Reply("failed")

WithReply(caller, callee, value) == [caller EXCEPT !.reply = Some(value)]

Returns(reply) ==
  /\ Running /\ Len(stack) > 1 /\ UNCHANGED <<shared, steps, Others>>
  /\ LET caller == stack[Len(stack) - 1]
         value == IF reply = "adopt_response" THEN AdoptResponse(Top) ELSE Reply(reply)
         charged == IF value.action = "failed" THEN caller ELSE Alloc(caller)
     IN /\ value.action # "failed" => alloc_memory_footprint(caller)
        /\ stack' = [SubSeq(stack, 1, Len(stack) - 1) EXCEPT ![Len(stack) - 1] = WithReply(charged, Top, value)]

\* The caller has no room for the reply: the call helper itself fails.
ReturnsUnaffordable ==
  /\ Running /\ Len(stack) > 1 /\ ~alloc_memory_footprint(stack[Len(stack) - 1])
  /\ UNCHANGED <<shared, steps>>
  /\ TrapAt(Len(stack) - 1)

caddy_call_failure(c) == Answers(c, 2) /\ SetError(500) /\ UNCHANGED Others

install_any_proxy(c) == TRUE
CanProxy(c) == c.resp = None /\ c.proxy = None

h_caddy_adopt_call_result ==
  /\ Calling /\ Top.reply # None /\ Top.reply[1].action # "failed"
  /\ LET c == [Top EXCEPT !.reply = None] reply == Top.reply[1].action
         response(a) == Response(a, Top.reply[1].status, Top.reply[1].hdrs)
     IN CASE reply = "continue" -> Counted /\ Answers(c, 0) /\ UNCHANGED <<shared, Others>>
          [] reply = "respond" ->
               IF InHook THEN Trapped
               ELSE Allocating(LAMBDA a : /\ Answers([a EXCEPT !.reply = None, !.resp = Some(response(a))], 1)
                                          /\ UNCHANGED <<shared, Others>>)
          [] reply = "bad respond" -> IF InHook THEN Trapped ELSE Counted /\ caddy_call_failure(c)
          [] reply = "proxy" /\ CanProxy(c) ->
               Counted /\ Answers([c EXCEPT !.proxy = Some(c.depth)], 1) /\ UNCHANGED <<shared, Others>>
          [] reply = "abort" -> IF InHook THEN Trapped
                                ELSE Counted /\ Answers(abort_and_clear_outputs(c), 1) /\ UNCHANGED <<shared, Others>>
          [] reply = "error" -> Counted /\ Answers(c, 2) /\ SetError(404) /\ UNCHANGED Others
          [] OTHER -> Counted /\ caddy_call_failure(c)

(***************************************************************************)
(* Basic authentication (helpers/caddy.rs).  An unknown user's password is *)
(* verified against a fake hash, so that the answer takes as long; the     *)
(* check runs on a worker thread and the program waits for it.             *)
(***************************************************************************)
\* The WWW-Authenticate header and the 401 in the error metadata; a hook's own
\* response headers go nowhere.
Challenged == [shared EXCEPT !.early = IF InHook THEN @ ELSE @ \cup {"www-authenticate"}, !.error = Some(401)]
caddy_basic_auth_prompt ==
  Allocating(LAMBDA c : /\ Answers([c EXCEPT !.waits = "no"], 0) /\ shared' = Challenged /\ UNCHANGED Others)

AccountFound == shared.auth[1] \in DOMAIN Accounts
PasswordHash == IF AccountFound THEN Accounts[shared.auth[1]] ELSE FakePassword

h_caddy_basic_auth ==
  /\ Calling
  /\ IF shared.auth = None THEN caddy_basic_auth_prompt
     ELSE Becomes([Top EXCEPT !.waits = "hash"]) /\ Counted /\ UNCHANGED <<shared, Others>>

Authenticated(verified) == verified /\ AccountFound

\* result: "checked", or "error" when the hash is malformed or the worker died.
caddy_basic_auth_finish(result) ==
  /\ stack # <<>> /\ Top.waits = "hash"
  /\ IF Authenticated(result = "checked" /\ shared.auth[2] = PasswordHash)
     THEN Allocating(LAMBDA c : /\ Answers([c EXCEPT !.waits = "no"], 1) /\ UNCHANGED Others
                                /\ shared' = [shared EXCEPT !.user = Some(<<shared.auth[1], "auth">>)])
     ELSE caddy_basic_auth_prompt

\* The variable http.auth.user.id is also the placeholder a checked user is read from.
h_caddy_vars_set(user) ==
  Calling /\ Allocating(LAMBDA c : Becomes(c) /\ shared' = [shared EXCEPT !.user = Some(<<user, "vars">>)] /\ UNCHANGED Others)

(***************************************************************************)
(* The loop over the scripts and the loop over the hooks.                  *)
(***************************************************************************)
StartScript ==
  /\ phase = "scripts" /\ stack = <<>> /\ next # <<>>
  /\ next' = Tail(next) /\ stack' = IF Head(next) \in HasEntry THEN <<Ctx(Head(next), 0)>> ELSE <<>>
  /\ UNCHANGED <<shared, res, before, todo, outcome, phase, steps>>

\* A hook whose script or function is gone is skipped.
StartHook ==
  /\ InHook /\ stack = <<>> /\ todo # <<>> /\ todo' = Tail(todo) /\ before' = res
  /\ stack' = IF Head(todo) \in Callable THEN <<Ctx(Head(todo)[1], 0)>> ELSE <<>>
  /\ UNCHANGED <<next, shared, res, outcome, phase, steps>>

HookReturns == InHook /\ Len(stack) = 1 /\ Running /\ stack' = <<>> /\ UNCHANGED <<next, shared, res, before, todo, outcome, phase, steps>>

HooksDone == /\ InHook /\ stack = <<>> /\ todo = <<>> /\ phase' = "done"
             /\ UNCHANGED <<next, stack, shared, res, before, todo, outcome, steps>>

encode_of_last(earlier, c) == c.encode
Encoding(earlier, c) == earlier \/ c.encode

Kept(o, c) ==
  CASE c.resp # None -> [o EXCEPT !.resp = c.resp]
    [] c.resp = None /\ c.proxy # None -> [o EXCEPT !.proxy = c.proxy]
    [] c.resp = None /\ c.proxy = None -> [o EXCEPT !.files = c.files]

every_output(c, encode) ==
  [NoOutcome EXCEPT !.abort = c.abort, !.resp = c.resp, !.proxy = c.proxy, !.files = c.files, !.encode = encode]

\* What an entry that returned leaves: abort before response before proxy before file server.
Verdict(c, encode) ==
  IF c.abort THEN [NoOutcome EXCEPT !.abort = TRUE] ELSE Kept([NoOutcome EXCEPT !.encode = encode], c)

Decided(o) == o.abort \/ o.files \/ o.resp # None \/ o.proxy # None

\* The first entry that leaves an output ends the loop; the encode setting of the
\* ones before it is carried along.
EntryReturns ==
  /\ phase = "scripts" /\ Len(stack) = 1 /\ Running /\ UNCHANGED steps
  /\ LET encode == Encoding(shared.encode, Top)
         o == Verdict(Top, encode)
     IN IF Decided(o) THEN Finish(o) /\ UNCHANGED shared
        ELSE stack' = <<>> /\ shared' = [shared EXCEPT !.encode = encode] /\ UNCHANGED Others

\* No script is left: the request is served from the site.
NoScriptLeft ==
  /\ phase = "scripts" /\ stack = <<>> /\ next = <<>> /\ UNCHANGED <<shared, steps>>
  /\ Finish([NoOutcome EXCEPT !.encode = shared.encode])

Done == phase = "done" /\ UNCHANGED runVars

Helper ==
  \/ \E s \in Statuses : h_respond(s) \/ h_caddy_respond(s) \/ h_caddy_set_error(s)
                           \/ h_res_set_status(s) \/ \E names \in {{}, {"x"}} : h_caddy_respond_static(s, names = {}, names)
  \/ h_reverse_proxy \/ h_abort \/ h_response_clear \/ h_caddy_encode \/ \E r \in 0..2 : h_file_server(r)
  \/ (\E n \in {"x", "content-length"} : h_caddy_response_headers(n)) \/ h_caddy_copy_response_headers \/ h_res_continue_request
  \/ \E f \in Asked : h_res_hook(f) \/ h_call(f)
  \/ h_res_hooks_clear \/ (\E n \in Limits : h_req_body_limit(n)) \/ BodySource_read
  \/ h_caddy_adopt_call_result \/ h_caddy_basic_auth \/ (\E u \in {"u3"} : h_caddy_vars_set(u))

RunNext ==
  \/ StartScript \/ EntryReturns \/ NoScriptLeft \/ StartHook \/ HookReturns \/ HooksDone
  \/ Helper \/ Faults \/ (\E r \in Replies : Returns(r)) \/ ReturnsUnaffordable
  \/ (\E r \in {"checked", "error"} : caddy_basic_auth_finish(r))
  \/ (\E failed \in BOOLEAN : BodyRead(failed)) \/ Done

RunSpec == RunInit /\ [][RunNext]_runVars

\* A request ends with at most one of an abort, a response, a proxy target and the
\* file server, whatever the scripts called and in which order
\* (run_request_scripts_with_state).
OneOutput ==
  outcome # None =>
    LET o == outcome[1]
    IN Cardinality({k \in {"abort", "resp", "proxy", "files"} :
                      IF k \in {"abort", "files"} THEN o[k] ELSE o[k] # None}) <= 1

\* The output is one that the entry of the last script started put into its own
\* context: what a callee answered reaches the outcome only by being adopted, and no
\* script runs after the one that answered (h_call, h_caddy_adopt_call_result).
OwnOutput ==
  outcome # None =>
    /\ outcome[1].resp # None => /\ outcome[1].resp[1].by = 0
                                 /\ outcome[1].resp[1].script = Scripts[Len(Scripts) - Len(next)]
    /\ outcome[1].proxy # None => outcome[1].proxy[1] = 0

\* A user is recorded as checked only if the request carries the password of a
\* configured account, also when the password happens to fit the hash that unknown
\* users are checked against (h_caddy_basic_auth).
Authentic ==
  shared.user # None /\ shared.user[1][2] = "auth" =>
    LET u == shared.user[1][1] IN u \in DOMAIN Accounts /\ shared.auth = <<u, Accounts[u]>>

\* No header of the answer comes both from a response_headers handler and from the
\* static response that was configured to set it (h_caddy_respond_static).
HeaderOnce ==
  outcome # None /\ outcome[1].resp # None =>
    \A g, h \in outcome[1].resp[1].hdrs : g[1] = h[1] => g = h

\* Once the entry has aborted, nothing it does later answers the request; only a
\* failure of the script itself is still reported (h_abort).
AbortFinal ==
  outcome = None /\ stack # <<>> /\ outcome' # None =>
    (stack[1].abort => outcome'[1].abort \/ outcome'[1].failed)

\* A response hook that fails leaves the response context (status, headers and
\* the wish to continue) as it was before it, whatever it and its callees did to
\* it; what it did to the metadata stays (run_response_hooks_raw).
HookUndone == InHook /\ stack # <<>> /\ stack' = <<>> /\ steps' # steps => res' = before

\* Neither limit on the request body, the one that bodies are read under and the
\* one that proxied uploads are cut at, is ever raised by whichever script or
\* callee (h_req_body_limit), with one exception: docs/user_manual.md:1011 says
\* "zs_req_body_limit(max_size) lowers the per-request buffered body read limit",
\* but a read limit of 0 is taken for none, and the next call raises it
\* (script.rs:129-134).
LimitLowered ==
  /\ shared.limit # None => shared'.limit # None /\ shared'.limit[1] <= shared.limit[1]
  /\ shared'.readMax <= shared.readMax \/ shared.readMax = 0

\* A body is handed to a script only if it fits the lowest limit that any script
\* or callee has set before it arrived, unless that was the 0 a later call raised.
ReadWithinLimit ==
  shared.body # "ready" /\ shared'.body = "ready" /\ shared.limit # None =>
    BodyLen <= shared.limit[1] \/ (shared.limit[1] = 0 /\ BodyLen <= shared.readMax)

\* A request ends with one output, put there by the script that answered, each
\* header set once, and with no user recorded who was not checked.
RightOutput == OneOutput /\ OwnOutput /\ HeaderOnce /\ Authentic

\* What a script has decided stays decided: an abort is final, a failed hook
\* leaves the response as it was, and a body limit other than 0 is only lowered
\* and always respected.
EffectsKept == [][AbortFinal /\ HookUndone /\ LimitLowered /\ ReadWithinLimit]_runVars
=============================================================================
