-------------------------- MODULE MCWebhookDelivery --------------------------
(* A small instance of WebhookDelivery for TLC. *)
EXTENDS WebhookDelivery

CONSTANTS e1, v1, v2, j1, j2, j3, w1, w2, q1
=============================================================================
