-------------------------- MODULE MCWebhookDelivery --------------------------
(***************************************************************************)
(* Small instances of WebhookDelivery, with 30 seconds to a tick: the      *)
(* lease is 3, base_delay 1 and max_delay 20, as in the code's defaults.   *)
(***************************************************************************)
EXTENDS WebhookDelivery

CONSTANTS w1, w2

TwoWorkers == {w1, w2}

\* _backoff_seconds: doubles from base_delay, up to max_delay.
MCBackoff == [n \in Attempts |-> IF 2 ^ (n - 1) < 20 THEN 2 ^ (n - 1) ELSE 20]
=============================================================================
