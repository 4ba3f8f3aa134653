----------------------------- MODULE LtHwWallet -----------------------------
(***************************************************************************)
(* Provisioning: lt_ex_hardware_wallet with the whole-configuration        *)
(* helpers it uses, command by command.  Every command may fail before or  *)
(* after the chip carried it out, the power may go at any point, and the   *)
(* example may be run again.  The chip keeps the configuration it started  *)
(* with: what is written to R config counts from the next start on.        *)
(* A configuration object is the set of its bits that are 1; the bits of a *)
(* UAP object are pairs <<field, session>>: the pairing key of the session *)
(* may use the command on the slots of that field.                         *)
(***************************************************************************)
EXTENDS Integers, Sequences

CONSTANTS
  MaxRuns,        \* bound: runs of the example
  MaxFailures     \* bound: failed commands and losses of power

ASSUME HwWalletAssumption == MaxRuns \in Nat /\ MaxFailures \in Nat

VARIABLES
  at,             \* place in lt_ex_hardware_wallet, 0: not running
  result,         \* what its last run returned
  session,        \* h->l3.session: pairing key of the session, NoSession
  r_config,       \* struct lt_config_t r_config of session_initial
  stored, applied,      \* chip: R config, the configuration in force
  keys, ecc, counters,  \* chip: pairing keys, ECC slots and counters in use
  runs, failures,
  fresh           \* history: this run may expect to succeed

progress == <<runs, fresh>>
device == <<stored, applied, keys, ecc, counters>>
walletVars == <<at, result, session, r_config, device, failures, progress>>

NoSession == -1
PairingKeys == 0..3
AllAccess == (0..3) \X PairingKeys

(***************************************************************************)
(* The configuration objects.                                              *)
(***************************************************************************)
cfg_desc_table ==
  <<"START_UP", "SENSORS", "DEBUG", "GPO", "SLEEP_MODE",
    "PAIRING_KEY_WRITE", "PAIRING_KEY_READ", "PAIRING_KEY_INVALIDATE",
    "R_CONFIG_WRITE_ERASE", "R_CONFIG_READ", "I_CONFIG_WRITE", "I_CONFIG_READ",
    "PING", "R_MEM_DATA_WRITE", "R_MEM_DATA_READ", "R_MEM_DATA_ERASE", "RANDOM_VALUE_GET",
    "ECC_KEY_GENERATE", "ECC_KEY_STORE", "ECC_KEY_READ", "ECC_KEY_ERASE",
    "ECDSA_SIGN", "EDDSA_SIGN", "MCOUNTER_INIT", "MCOUNTER_GET", "MCOUNTER_UPDATE",
    "MAC_AND_DESTROY">>

Objects == {cfg_desc_table[i] : i \in DOMAIN cfg_desc_table}

\* The bits of the first five objects that create_example_r_config changes.
Flags == [START_UP |-> {"MBIST_DIS", "RNGTEST_DIS"}, SENSORS |-> {"TEST_DIS", "MON_DIS", "DET_DIS"},
          DEBUG |-> {"FW_LOG_EN"}, GPO |-> {}, SLEEP_MODE |-> {"SLEEP_MODE_EN"}]

\* An erased object: every bit is 1.
Erased == [o \in Objects |-> IF o \in DOMAIN Flags THEN Flags[o] ELSE AllAccess]

To(fields, sessions) == fields \X sessions

\* CFG_START_UP to CFG_SLEEP_MODE: tests and sensors on, logging off, sleep on.
create_device_config(c) ==
  [c EXCEPT !.START_UP = @ \ Flags.START_UP, !.SENSORS = @ \ Flags.SENSORS,
            !.DEBUG = @ \ Flags.DEBUG, !.SLEEP_MODE = @ \union Flags.SLEEP_MODE]

\* Nobody writes pairing keys; everybody reads them; the session of key 0
\* invalidates key 0, that of key 3 the others.
create_pairing_config(c) ==
  [c EXCEPT !.PAIRING_KEY_WRITE = @ \ AllAccess,
            !.PAIRING_KEY_READ = @ \union AllAccess,
            !.PAIRING_KEY_INVALIDATE = (@ \ AllAccess) \union To({0}, {0}) \union To(1..3, {3}),
            !.PING = @ \union To({0}, PairingKeys),
            !.RANDOM_VALUE_GET = @ \union To({0}, PairingKeys)]

\* A variant for mutation: the session of key 1 may not store keys.
create_ecc_config_3_only(c) ==
  [c EXCEPT !.ECC_KEY_GENERATE = (@ \ AllAccess) \union To(1..3, {3}),
            !.ECC_KEY_STORE = (@ \ AllAccess) \union To(1..3, {3}),
            !.ECC_KEY_READ = @ \union AllAccess,
            !.ECC_KEY_ERASE = (@ \ AllAccess) \union To({0}, {1}) \union To(1..3, {3}),
            !.ECDSA_SIGN = (@ \ AllAccess) \union To(0..3, {3}),
            !.EDDSA_SIGN = (@ \ AllAccess) \union To(0..3, {3})]

\* ECC slots 0-7 (field 0) belong to the session of key 1, the others to key 3,
\* which signs with all of them.
create_ecc_config(c) ==
  [c EXCEPT !.ECC_KEY_GENERATE = (@ \ AllAccess) \union To(1..3, {3}),
            !.ECC_KEY_STORE = (@ \ AllAccess) \union To({0}, {1}) \union To(1..3, {3}),
            !.ECC_KEY_READ = @ \union AllAccess,
            !.ECC_KEY_ERASE = (@ \ AllAccess) \union To({0}, {1}) \union To(1..3, {3}),
            !.ECDSA_SIGN = (@ \ AllAccess) \union To(0..3, {3}),
            !.EDDSA_SIGN = (@ \ AllAccess) \union To(0..3, {3})]

\* Counters belong to the session of key 3; M&D slots to everybody.
create_mcounter_config(c) ==
  [c EXCEPT !.MCOUNTER_INIT = (@ \ AllAccess) \union To(0..3, {3}),
            !.MCOUNTER_GET = (@ \ AllAccess) \union To(0..3, {3}),
            !.MCOUNTER_UPDATE = (@ \ AllAccess) \union To(0..3, {3}),
            !.MAC_AND_DESTROY = @ \union AllAccess]

create_example_r_config(c) ==
  create_mcounter_config(create_ecc_config(create_pairing_config(create_device_config(c))))

(***************************************************************************)
(* The program: the calls in order, each with the answer it must get.      *)
(***************************************************************************)
Call(op, arg, expect) == [op |-> op, arg |-> arg, expect |-> expect]
Ok(op, arg) == Call(op, arg, "LT_OK")
Refused(op, arg) == Call(op, arg, "LT_L3_UNAUTHORIZED")

lt_read_whole_R_config ==
  [i \in DOMAIN cfg_desc_table |-> Ok("R_CONFIG_READ", cfg_desc_table[i])]

\* A variant for mutation: the loop starts with the second object.
write_whole_from_second ==
  [i \in 1..(Len(cfg_desc_table) - 1) |-> Ok("R_CONFIG_WRITE", cfg_desc_table[i + 1])]

lt_write_whole_R_config ==
  [i \in DOMAIN cfg_desc_table |-> Ok("R_CONFIG_WRITE", cfg_desc_table[i])]

lt_verify_chip_and_start_secure_session(pkey_index) == Ok("start", pkey_index)

Open(pkey_index) == <<Ok("init", 0), lt_verify_chip_and_start_secure_session(pkey_index)>>
Close == <<Ok("abort", 0), Ok("deinit", 0)>>

\* A variant for mutation: pairing key 0 is given up before the others are written.
session_initial_invalidates_first ==
  Open(0) \o lt_read_whole_R_config \o <<Ok("create", 0), Ok("R_CONFIG_ERASE", 0)>>
  \o lt_write_whole_R_config \o lt_read_whole_R_config
  \o <<Ok("PAIRING_KEY_INVALIDATE", 0)>> \o [i \in 1..3 |-> Ok("PAIRING_KEY_WRITE", i)]
  \o <<Ok("abort", 0), Ok("reboot", 0), Ok("deinit", 0)>>

session_initial ==
  Open(0) \o lt_read_whole_R_config \o <<Ok("create", 0), Ok("R_CONFIG_ERASE", 0)>>
  \o lt_write_whole_R_config \o lt_read_whole_R_config
  \o [i \in 1..3 |-> Ok("PAIRING_KEY_WRITE", i)] \o <<Ok("PAIRING_KEY_INVALIDATE", 0)>>
  \o <<Ok("abort", 0), Ok("reboot", 0), Ok("deinit", 0)>>

session0 == <<Ok("init", 0), Call("start", 0, "LT_L2_HSK_ERR"), Ok("deinit", 0)>>

WriteAllPairingKeys == [i \in 1..4 |-> Refused("PAIRING_KEY_WRITE", i - 1)]

session1 ==
  Open(1) \o <<Ok("PING", 0), Ok("ECC_KEY_STORE", 0)>> \o WriteAllPairingKeys \o Close

session2 ==
  Open(2) \o <<Ok("PING", 0), Refused("ECC_KEY_STORE", 0)>> \o WriteAllPairingKeys
  \o <<Refused("MCOUNTER_INIT", 0), Refused("MCOUNTER_UPDATE", 0), Refused("MCOUNTER_GET", 0)>>
  \o Close

session3 ==
  Open(3) \o <<Ok("PING", 0), Ok("EDDSA_SIGN", 0), Ok("ECC_KEY_READ", 0),
               Ok("ECC_KEY_GENERATE", 8), Ok("ECC_KEY_GENERATE", 16), Ok("ECC_KEY_GENERATE", 24),
               Ok("RANDOM_VALUE_GET", 0),
               Ok("MCOUNTER_INIT", 0), Ok("MCOUNTER_UPDATE", 0), Ok("MCOUNTER_GET", 0),
               Refused("ECC_KEY_STORE", 0)>>
  \o WriteAllPairingKeys \o Close

Program == session_initial \o session0 \o session1 \o session2 \o session3

(***************************************************************************)
(* The chip: which answer it gives to a call, and what it does.            *)
(***************************************************************************)
Local == {"init", "deinit", "create"}         \* calls that stay on the host

Uap(op) == IF op \in {"R_CONFIG_WRITE", "R_CONFIG_ERASE"} THEN "R_CONFIG_WRITE_ERASE" ELSE op

Field(c) ==
  CASE c.op \in {"PAIRING_KEY_WRITE", "PAIRING_KEY_INVALIDATE"} -> c.arg
    [] c.op \in {"ECC_KEY_STORE", "ECC_KEY_GENERATE", "ECC_KEY_READ", "EDDSA_SIGN"} -> c.arg \div 8
    [] c.op \in {"MCOUNTER_INIT", "MCOUNTER_UPDATE", "MCOUNTER_GET"} -> c.arg \div 4
    [] OTHER -> 0

Usable(c) ==
  CASE c.op = "PAIRING_KEY_WRITE" -> keys[c.arg] = "blank"
    [] c.op \in {"ECC_KEY_STORE", "ECC_KEY_GENERATE"} -> c.arg \notin ecc
    [] c.op \in {"EDDSA_SIGN", "ECC_KEY_READ"} -> c.arg \in ecc
    [] c.op \in {"MCOUNTER_UPDATE", "MCOUNTER_GET"} -> c.arg \in counters
    [] OTHER -> TRUE

Answer(c) ==
  CASE c.op \in Local \union {"abort", "reboot"} -> "LT_OK"
    [] c.op = "start" -> IF keys[c.arg] = "valid" THEN "LT_OK" ELSE "LT_L2_HSK_ERR"
    [] OTHER -> IF <<Field(c), session>> \notin applied[Uap(c.op)] THEN "LT_L3_UNAUTHORIZED"
                ELSE IF Usable(c) THEN "LT_OK" ELSE "LT_L3_FAIL"

Effect(c) ==
  /\ stored' = CASE c.op = "R_CONFIG_ERASE" -> Erased
                 [] c.op = "R_CONFIG_WRITE" -> [stored EXCEPT ![c.arg] = r_config[c.arg]]
                 [] OTHER -> stored
  /\ applied' = IF c.op = "reboot" THEN stored ELSE applied
  /\ keys' = CASE c.op = "PAIRING_KEY_WRITE" -> [keys EXCEPT ![c.arg] = "valid"]
               [] c.op = "PAIRING_KEY_INVALIDATE" -> [keys EXCEPT ![c.arg] = "invalid"]
               [] OTHER -> keys
  /\ ecc' = IF c.op \in {"ECC_KEY_STORE", "ECC_KEY_GENERATE"} THEN ecc \union {c.arg} ELSE ecc
  /\ counters' = IF c.op = "MCOUNTER_INIT" THEN counters \union {c.arg} ELSE counters

(***************************************************************************)
(* The specification.                                                      *)
(***************************************************************************)
WalletInit ==
  /\ at = 0 /\ result = -1 /\ session = NoSession
  /\ r_config = Erased /\ stored = Erased /\ applied = Erased
  /\ keys = [k \in PairingKeys |-> IF k = 0 THEN "valid" ELSE "blank"]
  /\ ecc = {} /\ counters = {} /\ runs = 0 /\ failures = 0 /\ fresh = FALSE

\* Key 0 is valid, the other slots are blank, and the configuration in force lets
\* the session of key 0 write them.
Provisionable ==
  /\ keys = [k \in PairingKeys |-> IF k = 0 THEN "valid" ELSE "blank"]
  /\ To(1..3, {0}) \subseteq applied.PAIRING_KEY_WRITE

lt_ex_hardware_wallet ==
  /\ at = 0 /\ runs < MaxRuns /\ runs' = runs + 1
  /\ at' = 1 /\ fresh' = Provisionable
  /\ UNCHANGED <<result, session, r_config, device, failures>>

\* The call at the current place succeeds: it gets the answer it must get.
ExpectedAnswer ==
  /\ at > 0
  /\ LET c == Program[at]
     IN /\ Answer(c) = c.expect
        /\ IF c.expect = "LT_OK" THEN Effect(c) ELSE UNCHANGED device
        /\ session' = CASE c.op = "start" /\ c.expect = "LT_OK" -> c.arg
                        [] c.op \in {"abort", "reboot"} -> NoSession
                        [] OTHER -> session
        /\ r_config' = CASE c.op = "R_CONFIG_READ" -> [r_config EXCEPT ![c.arg] = stored[c.arg]]
                         [] c.op = "create" -> create_example_r_config(r_config)
                         [] OTHER -> r_config
  /\ IF at < Len(Program) THEN at' = at + 1 /\ UNCHANGED result
     ELSE at' = 0 /\ result' = 0
  /\ UNCHANGED <<failures, progress>>

\* -1: the session is aborted if it is on, and the handle closed.
GiveUp == at' = 0 /\ result' = -1 /\ session' = NoSession /\ UNCHANGED r_config

UnexpectedAnswer ==
  /\ at > 0 /\ Answer(Program[at]) # Program[at].expect
  /\ IF Answer(Program[at]) = "LT_OK" THEN Effect(Program[at]) ELSE UNCHANGED device
  /\ GiveUp /\ UNCHANGED <<failures, progress>>

Failure == failures < MaxFailures /\ failures' = failures + 1

CallFails ==
  /\ at > 0 /\ Failure /\ fresh' = FALSE
  /\ \/ UNCHANGED device
     \/ Answer(Program[at]) = "LT_OK" /\ Effect(Program[at])
  /\ GiveUp /\ UNCHANGED runs

PowerFails ==
  /\ at > 0 /\ Failure /\ fresh' = FALSE
  /\ applied' = stored /\ UNCHANGED <<stored, keys, ecc, counters>>
  /\ GiveUp /\ UNCHANGED runs

WalletNext == lt_ex_hardware_wallet \/ ExpectedAnswer \/ UnexpectedAnswer \/ CallFails \/ PowerFails

WalletSpec == WalletInit /\ [][WalletNext]_walletVars

(***************************************************************************)
(* Properties.                                                             *)
(***************************************************************************)

\* The configuration that create_example_r_config makes is the one the five
\* sessions need: a run without faults on a chip that can be provisioned gets
\* every answer it expects - also when earlier runs were cut off and left a
\* partly written configuration.
WalletSucceeds == fresh /\ at = 0 /\ runs > 0 => result = 0

\* Pairing key 0, the only way into the chip at first, is given up last: then
\* the other three are valid and the whole example configuration is stored.
KeyZeroGoesLast ==
  keys[0] = "invalid" =>
    /\ \A k \in 1..3 : keys[k] = "valid"
    /\ stored = create_example_r_config(Erased)

\* Whatever was interrupted, R config is the example configuration up to some
\* object and erased behind it: lt_write_whole_R_config stops at the first object
\* that fails, and a later run, which starts from what it reads, adds no third value.
ConfigIsPrefix ==
  \E n \in 0..Len(cfg_desc_table) :
    stored = [o \in Objects |-> IF \E i \in 1..n : cfg_desc_table[i] = o
                                  THEN create_example_r_config(Erased)[o] ELSE Erased[o]]
=============================================================================
