----------------------------- MODULE AuthEmail ------------------------------
(***************************************************************************)
(* The send-email hook: what packages/email/src/hooks/send-email.ts makes of *)
(* one call of the auth service.  It is a function of the call and of how   *)
(* many of its messages the provider takes; it remembers nothing.           *)
(*                                                                         *)
(* A payload has the action's type, the account's address, the new address  *)
(* of an email change, and one or two tokens; NoAddress and NoToken stand   *)
(* for fields that are absent.  A token is any value.                       *)
(***************************************************************************)
EXTENDS Naturals, Sequences

CONSTANTS NoAddress, NoToken

ActionTypes == {"signup", "recovery", "invite", "email_change", "magiclink"}

\* verifyStandardWebhook: one entry of the signature header is enough, if its
\* version is v1 and it was made with the configured key.  NoKey: the secret
\* decodes to nothing.
verifyStandardWebhook(headers, key) ==
    /\ key # "NoKey"
    /\ headers.complete
    /\ \E i \in 1 .. Len(headers.signature) :
          /\ headers.signature[i].version = "v1"
          /\ headers.signature[i].key = key

\* verifyMessage, and the recovery message of buildAuthEmail: the link in the
\* message carries the token and the type to /auth/confirm.
verifyMessage(to, token, type) == [to |-> to, token |-> token, type |-> type]

\* Deviation: as it was once, with both tokens sent to the address on file.
BothToAddressOnFile(payload) ==
    <<verifyMessage(payload.email, payload.token_hash_new, "email_change"),
      verifyMessage(payload.email, payload.token_hash, "email_change")>>

\* Two tokens: one proves the new address, the other authorises the change
\* from the address on file.  One token: to the address it is about.
buildEmailChangeMessages(payload) ==
    IF payload.token_hash_new # NoToken /\ payload.new_email # NoAddress
    THEN <<verifyMessage(payload.new_email, payload.token_hash_new, "email_change"),
           verifyMessage(payload.email, payload.token_hash, "email_change")>>
    ELSE <<verifyMessage(IF payload.new_email # NoAddress THEN payload.new_email
                         ELSE payload.email,
                         payload.token_hash, "email_change")>>

\* An action without a message is not supported.
buildAuthEmail(payload) ==
    IF payload.type = "email_change" THEN buildEmailChangeMessages(payload)
    ELSE IF payload.type \in ActionTypes
    THEN <<verifyMessage(payload.email, payload.token_hash, payload.type)>>
    ELSE <<>>

\* The messages go out one after the other, and the first the provider does
\* not take ends the call: taken of them were sent, and nobody calls them back.
Taken(payload) == 0 .. Len(buildAuthEmail(payload))

\* What the hook answers and what was sent by then.  A throw of the provider
\* passes through, and the route's framework answers 500.
handleSendEmailHook(headers, key, payload, taken) ==
    LET messages == buildAuthEmail(payload)
        signed == verifyStandardWebhook(headers, key)
    IN [status |-> CASE ~ signed -> 401
                     [] signed /\ messages = <<>> -> 422
                     [] signed /\ messages # <<>> /\ taken < Len(messages) -> 500
                     [] OTHER -> 200,
        sent |-> IF signed THEN {messages[i] : i \in 1 .. taken} ELSE {}]

\* The route of apps/web.  Without a secret it verifies nothing and fails.
POST(headers, key, payload, taken) ==
    IF key = "Unset" THEN [status |-> 500, sent |-> {}]
    ELSE handleSendEmailHook(headers, key, payload, taken)
=============================================================================
