--------------------------- MODULE MCQuicHandshake ---------------------------
(* QuicHandshake for TLC: EncryptedExtensions, a Certificate of three      *)
(* units, CertificateVerify and Finished, cut in each of the 13 ways into  *)
(* datagrams of up to two.  crypto_data has room for a unit that waits and *)
(* a datagram: a cut that puts CertificateVerify behind the third unit of  *)
(* the Certificate, with two waiting, does not fit.                        *)
EXTENDS QuicHandshake

MCMessageLengths == <<1, 3, 1, 1>>
=============================================================================
