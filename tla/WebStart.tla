------------------------------ MODULE WebStart -------------------------------
(***************************************************************************)
(* The start of the web process: how it decides between HTTP and HTTPS,    *)
(* and the self-signed certificate it keeps.  run and listen.go of         *)
(* cmd/pilothouse, internal/tlscert.                                       *)
(*                                                                         *)
(* A pair has a serial number: the certificate of serial n goes with the   *)
(* key of serial n, and 0 is a file that is missing or cannot be parsed.   *)
(* Files are replaced by renaming without a sync of their directory, so    *)
(* what a power loss leaves may be older than what was there.              *)
(***************************************************************************)
EXTENDS Naturals

CONSTANTS Addresses, \* of the interfaces; "any" and "loopback" are none
          Lifetime, Window, MaxTime, MaxSerial, MaxMishaps

ASSUME WebStartAssumption ==
  /\ Lifetime \in Nat /\ Window \in Nat /\ Window < Lifetime
  /\ MaxTime \in Nat /\ MaxSerial \in Nat /\ MaxMishaps \in Nat
  /\ Addresses \cap {"any", "loopback", "localhost"} = {}

VARIABLES now, addresses, \* the time, and the addresses that are up
          phase,          \* of the process
          conf,           \* its resolved options
          cert, key,      \* the files
          onDisk,         \* what a power loss cannot take away
          next,           \* the pair being written
          served,         \* what the listener loaded, and when
          serials,        \* pairs generated so far
          mishaps         \* power losses and damaged files so far

webStartVars ==
  <<now, addresses, phase, conf, cert, key, onDisk, next, served, serials, mishaps>>

Hosts == Addresses \cup {"any", "loopback"}

noCert == [serial |-> 0, sans |-> {}, until |-> 0]

noConf == [host |-> "loopback", mode |-> "http", insecure |-> FALSE]

WebInit ==
  /\ now = 0 /\ addresses = Addresses
  /\ phase = "off"
  /\ conf = noConf
  /\ cert = noCert /\ key = 0
  /\ onDisk = [cert |-> noCert, key |-> 0]
  /\ next = noCert
  /\ served = [cert |-> noCert, key |-> 0, at |-> 0, host |-> "loopback"]
  /\ serials = 0 /\ mishaps = 0

------------------------------------------------------------------------------
(* A flag that was passed, else the environment, else the default, which   *)
(* is what a flag that was not passed holds.                               *)
resolveString(flagSet, flagValue, envValue) ==
  IF flagSet \/ envValue = "unset" THEN flagValue ELSE envValue

isLoopbackListen(host) == host = "loopback"

decideServeMode(loopback, certConfigured, allowInsecure) ==
  CASE certConfigured -> "provided"
    [] ~certConfigured /\ (loopback \/ allowInsecure) -> "http"
    [] OTHER -> "selfSigned"

concreteHost(host) == IF host = "any" THEN {} ELSE {host}

sanHosts(host) == {"localhost"} \cup addresses \cup concreteHost(host)

generate(host) == [serial |-> serials + 1, sans |-> sanHosts(host), until |-> now + Lifetime]

(* Mutant: the key is not compared with the certificate.                   *)
usableUnmatched(host) ==
  /\ cert.serial # 0 /\ key # 0
  /\ now + Window <= cert.until
  /\ concreteHost(host) \subseteq cert.sans

(* regenerationReason is "".                                               *)
usable(host) ==
  /\ cert.serial # 0 /\ key # 0
  /\ cert.serial = key
  /\ now + Window <= cert.until
  /\ concreteHost(host) \subseteq cert.sans

------------------------------------------------------------------------------
(* run up to the point where it needs a certificate: the options are       *)
(* resolved, a certificate without a key (or the reverse) is an error, and *)
(* a usable pair is taken as it is.                                        *)
Start ==
  /\ phase = "off"
  /\ \E passed, certGiven, keyGiven, insecure \in BOOLEAN,
        flag \in Hosts, env \in Hosts \cup {"unset"} :
       LET addr == resolveString(passed, IF passed THEN flag ELSE "loopback", env)
           mode == decideServeMode(isLoopbackListen(addr), certGiven, insecure)
       IN IF certGiven # keyGiven
          THEN UNCHANGED <<phase, conf, next>>
          ELSE /\ conf' = [host |-> addr, mode |-> mode, insecure |-> insecure]
               /\ IF mode # "selfSigned" \/ usable(addr)
                  THEN phase' = "listen" /\ UNCHANGED next
                  ELSE /\ serials < MaxSerial
                       /\ phase' = "writeKey" /\ next' = generate(addr)
  /\ serials' = IF phase' = "writeKey" THEN serials + 1 ELSE serials
  /\ UNCHANGED <<now, addresses, cert, key, onDisk, served, mishaps>>

(* Nothing is left of the process.                                         *)
Ended == phase' = "off" /\ conf' = noConf /\ next' = noCert

(* writeFileAtomic: the file is replaced as a whole ...                    *)
WriteKey ==
  /\ phase = "writeKey"
  /\ key' = next.serial /\ phase' = "writeCert"
  /\ UNCHANGED <<now, addresses, conf, cert, onDisk, next, served, serials, mishaps>>

WriteCert ==
  /\ phase = "writeCert"
  /\ cert' = next /\ phase' = "listen" /\ next' = noCert
  /\ UNCHANGED <<now, addresses, conf, key, onDisk, served, serials, mishaps>>

(* ... or not at all, and the start is refused.                            *)
WriteFails ==
  /\ phase \in {"writeKey", "writeCert"}
  /\ Ended
  /\ UNCHANGED <<now, addresses, cert, key, onDisk, served, serials, mishaps>>

(* ListenAndServeTLS reads the pair again and refuses one that does not    *)
(* match.                                                                  *)
Listen ==
  /\ phase = "listen"
  /\ IF conf.mode = "selfSigned" /\ (cert.serial = 0 \/ cert.serial # key)
     THEN Ended /\ UNCHANGED served
     ELSE /\ phase' = "serve" /\ UNCHANGED <<conf, next>>
          /\ served' = IF conf.mode = "selfSigned"
                       THEN [cert |-> cert, key |-> key, at |-> now, host |-> conf.host]
                       ELSE served
  /\ UNCHANGED <<now, addresses, cert, key, onDisk, serials, mishaps>>

(* The process ends: stopped, failing to bind, or killed between two steps.*)
End ==
  /\ phase # "off"
  /\ Ended
  /\ UNCHANGED <<now, addresses, cert, key, onDisk, served, serials, mishaps>>

------------------------------------------------------------------------------
(* The rest of the host.                                                   *)

Sync ==
  /\ onDisk # [cert |-> cert, key |-> key]
  /\ onDisk' = [cert |-> cert, key |-> key]
  /\ UNCHANGED <<now, addresses, phase, conf, cert, key, next, served, serials, mishaps>>

LosePower ==
  /\ mishaps < MaxMishaps
  /\ mishaps' = mishaps + 1 /\ Ended
  /\ cert' \in {cert, onDisk.cert}
  /\ key' \in {key, onDisk.key}
  /\ onDisk' = [cert |-> cert', key |-> key']
  /\ UNCHANGED <<now, addresses, served, serials>>

(* A file is deleted or damaged while the process is not starting.         *)
Spoil ==
  /\ phase \in {"off", "serve"} /\ mishaps < MaxMishaps
  /\ mishaps' = mishaps + 1
  /\ \/ cert' = noCert /\ UNCHANGED key
     \/ key' = 0 /\ UNCHANGED cert
  /\ onDisk' = [cert |-> cert', key |-> key']
  /\ UNCHANGED <<now, addresses, phase, conf, next, served, serials>>

Renumber ==
  /\ phase \in {"off", "serve"}
  /\ \E a \in Addresses : addresses' = {a}
  /\ UNCHANGED <<now, phase, conf, cert, key, onDisk, next, served, serials, mishaps>>

Tick ==
  /\ phase \in {"off", "serve"} /\ now < MaxTime
  /\ now' = now + 1
  /\ UNCHANGED <<addresses, phase, conf, cert, key, onDisk, next, served, serials, mishaps>>

WebNext ==
  \/ Start \/ WriteKey \/ WriteCert \/ WriteFails \/ Listen \/ End
  \/ Sync \/ LosePower \/ Spoil \/ Renumber \/ Tick

WebSpec == WebInit /\ [][WebNext]_webStartVars

------------------------------------------------------------------------------
WebTypeOK ==
  /\ now \in 0..MaxTime /\ addresses \subseteq Addresses
  /\ phase \in {"off", "writeKey", "writeCert", "listen", "serve"}
  /\ conf.host \in Hosts /\ conf.mode \in {"http", "provided", "selfSigned"}
  /\ {key, cert.serial, next.serial} \subseteq 0..serials

(* Whatever happened to the files, what is served is a pair of one         *)
(* generation that covers the listen address and is not about to expire    *)
(* when serving begins (LoadOrCreate).                                     *)
ServedPairIsGood ==
  phase = "serve" /\ conf.mode = "selfSigned" =>
    /\ served.cert.serial # 0 /\ served.cert.serial = served.key
    /\ concreteHost(conf.host) \subseteq served.cert.sans
    /\ served.at + Window <= served.cert.until

(* A pair that was checked or written can be loaded: the listener never    *)
(* meets a certificate without its key.                                    *)
PairIsLoadable ==
  phase = "listen" /\ conf.mode = "selfSigned" => cert.serial # 0 /\ cert.serial = key

(* Plain HTTP beyond loopback only when it was acknowledged.               *)
PlainOnlyByChoice ==
  phase = "serve" /\ conf.mode = "http" => isLoopbackListen(conf.host) \/ conf.insecure

(* A certificate that browsers have accepted is not replaced while it can  *)
(* still be served: another start for the same address generates a new one *)
(* only when the files were changed or the time has come.                  *)
CertificateIsKept ==
  [][phase = "off" /\ phase' = "writeKey" =>
       \/ served.cert.serial = 0
       \/ served.host # conf'.host \/ cert # served.cert \/ key # served.key
       \/ now + Window > served.cert.until]_webStartVars

(* What is served is a good pair, at every moment, or plain by choice, and *)
(* a pair that browsers accepted is not replaced without need.             *)
WebRules ==
  /\ [](WebTypeOK /\ ServedPairIsGood /\ PairIsLoadable /\ PlainOnlyByChoice)
  /\ CertificateIsKept
==============================================================================
