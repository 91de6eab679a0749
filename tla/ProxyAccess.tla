---------------------------- MODULE ProxyAccess ----------------------------
(***************************************************************************)
(* What a caller of ShadowsocksServer.update may rely on ("Updates the     *)
(* server to accept only the given access keys", model/shadowsocks_server. *)
(* ts): once the promise is fulfilled, a proxy that reads its              *)
(* configuration finds these keys and no others, so a key that was left    *)
(* out can only be served until the next read and never comes back.        *)
(***************************************************************************)
CONSTANT Keys

VARIABLES
  wanted,   \* the keys of the last update
  busy,     \* its promise is not settled yet
  rejected, \* the promise that was settled last was rejected
  readable, \* the sets of keys that reading the configuration can give
  serving   \* the keys the proxy accepts

vars == <<wanted, busy, rejected, readable, serving>>

Init ==
  /\ wanted = {}
  /\ busy = FALSE
  /\ rejected = FALSE
  /\ readable = {{}}
  /\ serving = {}

(* While it is under way, nothing at all may be readable for a moment. *)
Update(ks) ==
  /\ ~busy
  /\ busy' = TRUE
  /\ wanted' = ks
  /\ readable' = readable \cup {{}, ks}
  /\ UNCHANGED <<rejected, serving>>

Fulfil ==
  /\ busy
  /\ busy' = FALSE
  /\ rejected' = FALSE
  /\ readable' = {wanted}
  /\ UNCHANGED <<wanted, serving>>

Narrowed == readable' \in (SUBSET readable) \ {{}}

(* A failed update settles on something that was readable. *)
Reject ==
  /\ busy
  /\ busy' = FALSE
  /\ rejected' = TRUE
  /\ Narrowed
  /\ UNCHANGED <<wanted, serving>>

Progress ==
  /\ busy
  /\ Narrowed
  /\ UNCHANGED <<wanted, busy, rejected, serving>>

Read ==
  /\ serving' \in readable
  /\ UNCHANGED <<wanted, busy, rejected, readable>>

Stop ==
  /\ serving' = {}
  /\ UNCHANGED <<wanted, busy, rejected, readable>>

(* The server starts over with whatever was readable. *)
StartOver ==
  /\ busy' = FALSE
  /\ rejected' = FALSE
  /\ serving' = {}
  /\ wanted' = {}
  /\ Narrowed

Next ==
  \/ \E ks \in SUBSET Keys : Update(ks)
  \/ Fulfil \/ Reject \/ Progress \/ Read \/ Stop \/ StartOver

Spec == Init /\ [][Next]_vars
============================================================================
