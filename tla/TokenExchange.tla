--------------------------- MODULE TokenExchange ---------------------------
(***************************************************************************)
(* The bounds on a token request and a token response: the two validate    *)
(* functions of crates/libid-ceremony/src/token_exchange.rs.  A string is  *)
(* its length and whether a byte of it is outside what is allowed.         *)
(***************************************************************************)
EXTENDS Naturals

MAX_CODE_BYTES == 1024
CODE_VERIFIER_LEN == 43
MAX_ACCESS_TOKEN_BYTES == 4096
BEARER_OPENING_LEN == 16

\* Mistaken: half the room.
half_the_attested_data == 1024 * 1024

MAX_ATTESTED_DATA_BYTES == 2 * 1024 * 1024
SIGNATURE_LEN == 65

Text(len, printable) == [len |-> len, printable |-> printable]

\* The error, or "none".
ValidateRequest(r) ==
    CASE r.code.len = 0              -> "EmptyCode"
      [] r.code.len > MAX_CODE_BYTES -> "CodeTooLong"
      [] ~r.code.printable           -> "CodeNotPrintable"
      [] r.code_verifier.len # CODE_VERIFIER_LEN \/ ~r.code_verifier.printable
                                     -> "MalformedCodeVerifier"
      [] OTHER                       -> "none"

\* Mistaken: the notary signature is expected without its last byte.
ValidateResponseBare(r) ==
    CASE r.access_token.len = 0      -> "EmptyAccessToken"
      [] r.access_token.len > MAX_ACCESS_TOKEN_BYTES -> "AccessTokenTooLong"
      [] ~r.access_token.printable   -> "AccessTokenNotPrintable"
      [] r.attested_data = 0         -> "EmptyAttestedData"
      [] r.attested_data > MAX_ATTESTED_DATA_BYTES -> "AttestedDataTooLong"
      [] r.signature # 64            -> "SignatureWrongLength"
      [] r.bearer_opening # BEARER_OPENING_LEN -> "BearerOpeningWrongLength"
      [] OTHER                       -> "none"

\* attested_data, signature and bearer_opening by their lengths.
ValidateResponse(r) ==
    CASE r.access_token.len = 0      -> "EmptyAccessToken"
      [] r.access_token.len > MAX_ACCESS_TOKEN_BYTES -> "AccessTokenTooLong"
      [] ~r.access_token.printable   -> "AccessTokenNotPrintable"
      [] r.attested_data = 0         -> "EmptyAttestedData"
      [] r.attested_data > MAX_ATTESTED_DATA_BYTES -> "AttestedDataTooLong"
      [] r.signature # SIGNATURE_LEN -> "SignatureWrongLength"
      [] r.bearer_opening # BEARER_OPENING_LEN -> "BearerOpeningWrongLength"
      [] OTHER                       -> "none"
=============================================================================
