------------------------ MODULE MCFizzServerStartup ------------------------
(* Model-checking instance of FizzServerStartup: every supported KEM and   *)
(* one unsupported, every credential key type, and compression lists of   *)
(* up to three algorithms, with one that this build has no compressor   *)
(* for.  The default ECH config is an x25519 one, as the fixed 32-byte    *)
(* key pair of setupDefaultDecrypter needs (spec section 4.5).           *)
EXTENDS FizzServerStartup, TLC

MCKemIds == {"secp256r1", "secp384r1", "secp521r1", "x25519", "other"}
MCKeyTypes == {"RSA", "P256", "P384", "P521", "ED25519"}
MCCompAlgos == {"zlib", "zstd", "brotli"}
MCBuiltCompressors == {"zlib", "zstd"}
MCAlgoLists == {<<"zlib">>, <<"brotli", "zstd">>, <<"zstd", "brotli", "zlib">>}

=============================================================================
