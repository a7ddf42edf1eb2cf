--------------------------- MODULE AuthForwarder ---------------------------
(***************************************************************************)
(* The local forwarder in front of our own nodes                           *)
(* (.github/actions/rpc-proxy/own-node-auth.py): one thread per client     *)
(* connection, all sharing one cache of OIDC tokens under one lock. A      *)
(* request takes a token, is sent, and is tried again when the connection  *)
(* drops or the gate refuses the token.                                    *)
(*                                                                         *)
(* Time passes in units. The timeouts of the script hold of one socket     *)
(* operation each, and a mint or a try is made of many, so neither has a   *)
(* bound: only the operation in progress does.                             *)
(***************************************************************************)
EXTENDS Integers

CONSTANTS
  Thread,    \* the threads of the server
  Audience,  \* the gates
  Nobody,    \* the holder of a free lock
  Lifetime,  \* how long a token lives, from the moment it is issued
  Margin,    \* REFRESH_MARGIN_SECS
  OpTime,    \* the longest one socket operation takes, UPSTREAM_TIMEOUT_SECS
  Lookup,    \* bound: the longest a lookup of a name takes
  Warm,      \* bound: when a token cached at the start may expire, 0 for none
  MaxTime    \* bound on the clock

ASSUME AuthAssumption ==
  /\ Nobody \notin Thread
  /\ Lifetime \in Nat /\ Margin \in Nat /\ OpTime \in Nat /\ Lookup \in Nat
  /\ Warm \subseteq Nat
  /\ MaxTime \in Nat

VARIABLES
  clock,   \* the time
  cache,   \* when the cached token of each audience expires, 0 without one
  lock,    \* the thread that holds the lock
  call,    \* the request each thread is serving
  open,    \* LOCAL.conns: the gates each thread keeps a connection to
  budget,  \* bound: the requests each thread still gets
  answer   \* history: how the last request of each thread was answered

authVars == <<clock, cache, lock, call, open, budget, answer>>

NoCall == [pc |-> "idle"]
Attempts == 3
NoAnswer == [status |-> "none"]

\* The server as earlier requests left it: a token cached, or none. Its threads
\* are new, one for each client connection.
AuthInit(n) ==
  /\ clock = 1
  /\ cache \in [Audience -> Warm]
  /\ lock = Nobody
  /\ call = [t \in Thread |-> NoCall]
  /\ open = [t \in Thread |-> {}]
  /\ budget = [t \in Thread |-> n]
  /\ answer = [t \in Thread |-> NoAnswer]

Doing(t, pc) == call[t].pc = pc
Set(t, c) == call' = [call EXCEPT ![t] = c]

\* do_POST: a request for one of the gates.
Accept(t) ==
  /\ Doing(t, "idle")
  /\ budget[t] > 0
  /\ budget' = [budget EXCEPT ![t] = @ - 1]
  /\ \E a \in Audience :
       Set(t, [pc |-> "want", aud |-> a, attempt |-> 0, fresh |-> FALSE,
               drops |-> 0, exp |-> 0, since |-> 0, verdict |-> "none"])
  /\ UNCHANGED <<clock, cache, lock, open, answer>>

\* Tokens.get, under the lock: the cached token, or a new one when there is
\* none, it expires within the margin, or the caller wants a fresh one.
MintDue(c) == c.fresh \/ cache[c.aud] = 0 \/ cache[c.aud] - clock < Margin
LockIgnored(t) == TRUE
LockFree(t) == lock = Nobody

\* connection and conn.request: with a token that expires at exp, over the kept
\* connection or over a new one, which begins with the name of the gate.
Leave(t, exp) ==
  Set(t, [call[t] EXCEPT !.pc = IF call[t].aud \in open[t] THEN "send" ELSE "resolve",
                         !.exp = exp, !.since = clock])
UseCached(t) ==
  /\ Doing(t, "want")
  /\ LockFree(t)
  /\ ~MintDue(call[t])
  /\ Leave(t, cache[call[t].aud])
  /\ UNCHANGED <<clock, cache, lock, open, budget, answer>>
StartMint(t) ==
  /\ Doing(t, "want")
  /\ LockFree(t)
  /\ MintDue(call[t])
  /\ lock' = t
  /\ Set(t, [call[t] EXCEPT !.pc = "mint", !.since = clock])
  /\ UNCHANGED <<clock, cache, open, budget, answer>>

Respond(t, status) ==
  /\ Set(t, NoCall)
  /\ answer' = [answer EXCEPT ![t] =
                  [status |-> status, fresh |-> call[t].fresh, drops |-> call[t].drops,
                   tries |-> call[t].attempt + 1, minting |-> Doing(t, "mint")]]

\* The mint ends, and with it the lock; its failure is a 502. The token was
\* issued at some moment of the mint, and its age is not looked at.
MintEnds(t) ==
  /\ Doing(t, "mint")
  /\ lock' = Nobody
  /\ \/ \E issued \in call[t].since .. clock :
          /\ cache' = [cache EXCEPT ![call[t].aud] = issued + Lifetime]
          /\ Leave(t, issued + Lifetime)
          /\ UNCHANGED answer
     \/ Respond(t, "502") /\ UNCHANGED cache
  /\ UNCHANGED <<clock, open, budget>>

\* The way of a try. The lookup of the name has no timeout; every address that
\* is tried, every read of the handshake, and the send have one each.
Flight == {"resolve", "connect", "send", "reply"}
Limits == [resolve |-> Lookup, connect |-> OpTime, send |-> OpTime]
Proceed(t, from, to) ==
  /\ Doing(t, from)
  /\ Set(t, [call[t] EXCEPT !.pc = to, !.since = clock])
  /\ UNCHANGED <<clock, cache, lock, budget, answer>>
Resolved(t) == Proceed(t, "resolve", "connect") /\ UNCHANGED open
NextOperation(t) == Proceed(t, "connect", "connect") /\ UNCHANGED open
Connected(t) ==
  /\ Proceed(t, "connect", "send")
  /\ open' = [open EXCEPT ![t] = @ \union {call[t].aud}]

\* The request is sent, and the gate judges its token: only a live one passes,
\* and a live one may be refused, for the clock of the gate may run ahead.
Sent(t) ==
  /\ Doing(t, "send")
  /\ \E verdict \in IF call[t].exp > clock THEN {"passed", "refused"} ELSE {"expired"} :
       Set(t, [call[t] EXCEPT !.pc = "reply", !.since = 0, !.verdict = verdict])
  /\ UNCHANGED <<clock, cache, lock, open, budget, answer>>

Retry(t, c) ==
  /\ Set(t, [c EXCEPT !.pc = "want", !.attempt = @ + 1, !.exp = 0, !.since = 0,
                      !.verdict = "none"])
  /\ UNCHANGED answer
IsLastEarly(c) == c.attempt = Attempts - 2
IsLast(c) == c.attempt = Attempts - 1

\* Any operation fails or times out: the connection is dropped, and the exception
\* of the last try is a 502.
Dropped(t) ==
  /\ call[t].pc \in Flight
  /\ open' = [open EXCEPT ![t] = @ \ {call[t].aud}]
  /\ IF IsLast(call[t])
     THEN Respond(t, "502")
     ELSE Retry(t, [call[t] EXCEPT !.drops = @ + 1])
  /\ UNCHANGED <<clock, cache, lock, budget>>

\* A whole reply leaves the connection open, unless the gate closes it.
KeepOrClose(t) == open' \in {open, [open EXCEPT ![t] = @ \ {call[t].aud}]}

\* The gate has refused the token. The first refusal asks for a fresh one, unless
\* no try is left; a refused fresh token is the answer.
TokenRefused(t) ==
  /\ Doing(t, "reply")
  /\ call[t].verdict \in {"refused", "expired"}
  /\ KeepOrClose(t)
  /\ IF call[t].fresh \/ IsLast(call[t])
     THEN Respond(t, "401")
     ELSE Retry(t, [call[t] EXCEPT !.fresh = TRUE])
  /\ UNCHANGED <<clock, cache, lock, budget>>

\* The node has answered.
Answered(t) ==
  /\ Doing(t, "reply")
  /\ call[t].verdict = "passed"
  /\ KeepOrClose(t)
  /\ Respond(t, "200")
  /\ UNCHANGED <<clock, cache, lock, budget>>

\* Time passes, but no operation outlasts its timeout.
Tick ==
  /\ clock < MaxTime
  /\ \A t \in Thread :
       call[t].pc \in DOMAIN Limits => clock - call[t].since < Limits[call[t].pc]
  /\ clock' = clock + 1
  /\ UNCHANGED <<cache, lock, call, open, budget, answer>>

Serve(t) ==
  \/ UseCached(t)
  \/ StartMint(t)
  \/ MintEnds(t)
  \/ Resolved(t)
  \/ NextOperation(t)
  \/ Connected(t)
  \/ Sent(t)
  \/ Dropped(t)
  \/ TokenRefused(t)
  \/ Answered(t)

AuthNext == Tick \/ \E t \in Thread : Accept(t) \/ Serve(t)
AuthSpec(n) == AuthInit(n) /\ [][AuthNext]_authVars

-----------------------------------------------------------------------------
(* Properties *)

\* "a token never expires in flight": the gate never finds expired what passed
\* the check under the lock, or was minted there.
TokenLivesAtGate == \A t \in Thread : call[t].pc = "reply" => call[t].verdict # "expired"

\* Threads that find the token due at the same time mint one between them: a
\* cached token is replaced only when it is due, or by a thread that was refused.
MintedOnlyWhenDue ==
  [][ \A a \in Audience :
        cache'[a] # cache[a] /\ cache[a] # 0 =>
          \/ cache[a] - clock < Margin
          \/ \E t \in Thread : call[t].pc = "mint" /\ call[t].fresh ]_authVars

\* An error is answered only when the tries are spent: a 502 after a failed
\* mint or a drop on the last of three sends, of which at least two were drops
\* unless a refusal took one; a 401 after a fresh token or on the last send. A
\* token that expired on its way costs a send, never the request by itself.
GivesUpOnlyWhenSpent ==
  \A t \in Thread :
    /\ answer[t].status = "502" /\ ~answer[t].minting =>
         answer[t].tries = Attempts /\ (answer[t].fresh \/ answer[t].drops = 2)
    /\ answer[t].status = "401" => answer[t].fresh \/ answer[t].drops = 2

=============================================================================
