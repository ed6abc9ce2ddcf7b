----------------------- MODULE MCCertificatesListing ------------------------
(* Small instances of CertificatesListing for TLC.                           *)
EXTENDS CertificatesListing

CONSTANTS apps, infra

MCReadable == <<apps, infra>>
=============================================================================
