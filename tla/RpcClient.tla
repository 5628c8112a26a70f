------------------------------ MODULE RpcClient ------------------------------
(***************************************************************************)
(* The JSON-RPC client of Bitcoin Core (bitcoin/rpc.rs) and the command    *)
(* line tool built on it (bin/bitcoind-cli.rs).                            *)
(*                                                                         *)
(* Bitcoin Core takes positional arguments.  An argument the caller leaves *)
(* out is a JSON null; handle_defaults walks the optional arguments from   *)
(* the last to the first, one iteration of its loop per step here,         *)
(* replaces a null in front of a supplied argument by the default of its   *)
(* position, and cuts the trailing nulls off.  What matters of an argument *)
(* is which of the three it is: supplied by the caller, null, or taken     *)
(* from the table of defaults.                                             *)
(***************************************************************************)
EXTENDS Naturals, Sequences

Null == "null"
Given == "given"
Default == "default"

(* A method of BitcoinCoreRpcHttp: the command it sends, the number of     *)
(* arguments it always supplies, the number of its Option parameters       *)
(* (always behind the others) and the table handed to handle_defaults.     *)
Call(command, required, optional, defaults) ==
    [command |-> command, required |-> required, optional |-> optional, defaults |-> defaults]

(* A method that sends its argument list as it is, without handle_defaults *)
Plain(command, required, optional) == Call(command, required, optional, <<>>)

add_multisig_address == Call("addmultisigaddress", 2, 2, <<Default, Null>>)
unload_wallet == Call("unloadwallet", 0, 1, <<Null>>)
create_wallet == Call("createwallet", 1, 4, <<Default, Default, Default, Default>>)
backup_wallet == Call("backupwallet", 0, 1, <<Null>>)
get_raw_transaction == Call("getrawtransaction", 2, 1, <<Null>>)
get_raw_transaction_hex == Call("getrawtransaction", 2, 1, <<Null>>)
get_raw_transaction_info == Call("getrawtransaction", 2, 1, <<Null>>)
get_balance == Call("getbalance", 1, 2, <<Default, Null>>)
get_received_by_address == Call("getreceivedbyaddress", 1, 1, <<Null>>)
get_transaction == Call("gettransaction", 1, 1, <<Null>>)
list_transactions_NoSkip == Call("listtransactions", 1, 3, <<Default, Null, Null>>)
list_transactions == Call("listtransactions", 1, 3, <<Default, Default, Null>>)
list_since_block == Call("listsinceblock", 0, 4, <<Null>>)
get_tx_out == Call("gettxout", 2, 1, <<Null>>)
get_tx_out_proof == Call("gettxoutproof", 1, 1, <<Null>>)
import_public_key == Call("importpubkey", 1, 2, <<Default, Null>>)
import_private_key == Call("importprivkey", 1, 2, <<Default, Null>>)
import_address == Call("importaddress", 1, 2, <<Default, Null>>)
import_address_script == Call("importaddress", 1, 3, <<Default, Default, Null>>)
import_multi == Call("importmulti", 1, 1, <<Null>>)
key_pool_refill == Call("keypoolrefill", 0, 1, <<Null>>)
list_unspent == Call("listunspent", 0, 5, <<Default, Default, Default, Default, Null>>)
list_received_by_address == Call("listreceivedbyaddress", 0, 4, <<Default, Default, Default, Null>>)
create_raw_transaction_hex == Call("createrawtransaction", 2, 2, <<Default, Null>>)
fund_raw_transaction == Call("fundrawtransaction", 1, 2, <<Default, Null>>)
sign_raw_transaction == Call("signrawtransaction", 1, 3, <<Default, Default, Null>>)
sign_raw_transaction_with_wallet == Call("signrawtransactionwithwallet", 1, 2, <<Default, Null>>)
sign_raw_transaction_with_key == Call("signrawtransactionwithkey", 2, 2, <<Default, Null>>)
send_to_address ==
    Call("sendtoaddress", 2, 6, <<Default, Default, Default, Default, Default, Null>>)
estimate_smart_fee == Call("estimatesmartfee", 1, 1, <<Null>>)
wallet_create_funded_psbt == Call("walletcreatefundedpsbt", 2, 3, <<Default, Default, Default>>)
finalize_psbt == Call("finalizepsbt", 1, 1, <<Default>>)
derive_addresses == Call("deriveaddresses", 1, 1, <<Null>>)
rescan_blockchain == Call("rescanblockchain", 0, 2, <<Default, Null>>)
get_network_hash_ps == Call("getnetworkhashps", 0, 2, <<Null, Null>>)
get_new_address == Plain("getnewaddress", 0, 2)
generate == Plain("generate", 1, 1)
test_mempool_accept == Plain("testmempoolaccept", 1, 0)
send_raw_transaction == Plain("sendrawtransaction", 1, 0)
get_blockchain_info == Plain("getblockchaininfo", 0, 0)
version == Plain("getnetworkinfo", 0, 0)
(* Methods without Option parameters, in the groups in which the file has them *)
LoadWalletCalls == {Plain("loadwallet", 1, 0)}
WalletCalls == {Plain("listwallets", 0, 0), Plain("getwalletinfo", 0, 0)}
KeyCalls == {Plain("dumpprivkey", 1, 0), Plain("encryptwallet", 1, 0),
             Plain("getdifficulty", 0, 0), Plain("getconnectioncount", 0, 0)}
BlockCalls == {Plain("getblock", 2, 0), Plain("getblockheader", 2, 0), Plain("getmininginfo", 0, 0)}
ChainCalls == {Plain("getblockcount", 0, 0), Plain("getbestblockhash", 0, 0),
               Plain("getblockhash", 1, 0)}
FilterCalls == {Plain("getblockfilter", 1, 0)}
BalancesCalls == {Plain("getbalances", 0, 0)}
LabelCalls == {Plain("setlabel", 2, 0)}
LockCalls == {Plain("lockunspent", 2, 0)}
StopCalls == {Plain("stop", 0, 0), Plain("verifymessage", 3, 0)}
AddressCalls == {Plain("getaddressinfo", 1, 0), Plain("generatetoaddress", 2, 0)}
MempoolCalls == {Plain("invalidateblock", 1, 0), Plain("reconsiderblock", 1, 0),
                 Plain("getrawmempool", 0, 0), Plain("getmempoolentry", 1, 0)}
PeerCalls == {Plain("getpeerinfo", 0, 0), Plain("ping", 0, 0)}
WaitCalls == {Plain("waitfornewblock", 1, 0), Plain("waitforblock", 2, 0)}
PsbtCalls == {Plain("getdescriptorinfo", 1, 0), Plain("combinepsbt", 1, 0)}
TotalsCalls == {Plain("gettxoutsetinfo", 0, 0), Plain("getnettotals", 0, 0)}
NodeCalls == {Plain("uptime", 0, 0), Plain("scantxoutset", 2, 0)}

(* The calls that carry a raw transaction, converted by RawTx::raw_hex *)
TxCalls == {fund_raw_transaction, sign_raw_transaction, sign_raw_transaction_with_wallet,
            sign_raw_transaction_with_key, test_mempool_accept, send_raw_transaction}

(* Every method of the client *)
Calls ==
    {add_multisig_address, unload_wallet, create_wallet, backup_wallet, get_raw_transaction,
     get_raw_transaction_hex, get_raw_transaction_info, get_balance, get_received_by_address,
     get_transaction, list_transactions, list_since_block, get_tx_out, get_tx_out_proof,
     import_public_key, import_private_key, import_address, import_address_script, import_multi,
     key_pool_refill, list_unspent, list_received_by_address, create_raw_transaction_hex,
     send_to_address, estimate_smart_fee, wallet_create_funded_psbt, finalize_psbt,
     derive_addresses, rescan_blockchain, get_network_hash_ps, get_new_address, generate,
     get_blockchain_info, version}
    \cup TxCalls \cup LoadWalletCalls \cup WalletCalls \cup KeyCalls \cup BlockCalls
    \cup ChainCalls \cup FilterCalls \cup BalancesCalls \cup LabelCalls \cup LockCalls
    \cup StopCalls \cup AddressCalls \cup MempoolCalls \cup PeerCalls \cup WaitCalls
    \cup PsbtCalls \cup TotalsCalls \cup NodeCalls

(* The assertion at the head of handle_defaults, for every method *)
ASSUME TablesFit == \A c \in Calls : c.required + c.optional >= Len(c.defaults)

(* What opt_into_json makes of every combination of supplied and omitted   *)
(* Option parameters                                                       *)
ArgLists(c) ==
    {a \in [1 .. c.required + c.optional -> {Null, Given}] : \A n \in 1 .. c.required : a[n] = Given}

(* The types that implement RawTx; the text handed over as `encoded' times *)
(* hex-encoded bytes.  A &str or String is passed on as it is, everything  *)
(* else is encoded once more.                                              *)
RawTx == {[type |-> "Transaction", encoded |-> 0], [type |-> "bytes", encoded |-> 0],
          [type |-> "str", encoded |-> 1]}
raw_hex_Always(tx) == tx.encoded + 1
raw_hex(tx) == IF tx.type = "str" THEN tx.encoded ELSE tx.encoded + 1
NoTx == [type |-> "none", encoded |-> 0]

(* The subcommands of bitcoind-cli: the methods they call *)
CliCalls ==
    {list_transactions, generate, test_mempool_accept, send_raw_transaction, get_blockchain_info,
     version}
    \cup LoadWalletCalls \cup WalletCalls \cup KeyCalls \cup ChainCalls \cup FilterCalls
    \cup BalancesCalls \cup LabelCalls \cup LockCalls \cup PeerCalls \cup TotalsCalls \cup NodeCalls
    \cup PsbtCalls \cup MempoolCalls
    \cup {c \in BlockCalls \cup StopCalls \cup AddressCalls \cup WaitCalls :
             c.command \in {"getblock", "getmininginfo", "stop", "getaddressinfo", "waitfornewblock"}}

(* list_transactions is called with a label and a count; the rest with all *)
(* their parameters                                                        *)
CliArgs(c) == IF c = list_transactions THEN {<<Given, Given, Null, Null>>} ELSE ArgLists(c)

(* SendRawTransaction hands over the bytes of the hex text on its command  *)
(* line, TestMempoolAccept the text itself                                 *)
CliTx(c) ==
    IF c = send_raw_transaction THEN [type |-> "bytes", encoded |-> 1]
    ELSE IF c = test_mempool_accept THEN [type |-> "str", encoded |-> 1]
    ELSE NoTx

VARIABLES
    pc,        \* where the call is
    caller,    \* "library" or "cli"
    call,      \* the method
    supplied,  \* the argument list as the method built it
    args,      \* the same list while handle_defaults edits it
    i,         \* the loop counter of handle_defaults
    first,     \* first_non_null_optional_idx; 0 is None
    sent,      \* the argument list handed to send_request
    hexed,     \* how often the transaction sent is hex-encoded
    node,      \* "old": Bitcoin Core before 0.19, "new": from 0.19 on
    raw,       \* the softfork fields in the reply to getblockchaininfo
    replaced   \* history: the node was replaced while raw was waiting for the version

info == <<node, raw, replaced>>
vars == <<pc, caller, call, supplied, args, i, first, sent, hexed, info>>

Init ==
    /\ pc = "idle"
    /\ caller = "library"
    /\ call = version
    /\ supplied = <<>> /\ args = <<>> /\ sent = <<>>
    /\ i = 0 /\ first = 0 /\ hexed = 0
    /\ node \in {"old", "new"}
    /\ raw = {} /\ replaced = FALSE

(* A method builds its argument list and enters handle_defaults.  Plain    *)
(* calls have an empty table: the loop does nothing and the slice is the   *)
(* whole list.                                                             *)
Enter(who, c, a, tx) ==
    /\ pc = "idle"
    /\ pc' = "loop"
    /\ caller' = who
    /\ call' = c
    /\ supplied' = a /\ args' = a
    /\ hexed' = IF c \in TxCalls THEN raw_hex(tx) ELSE 0
    /\ UNCHANGED <<i, first, sent, info>>

(* The program calls a method of the client *)
Invoke ==
    \E c \in Calls : \E a \in ArgLists(c) :
        \E tx \in (IF c \in TxCalls THEN RawTx ELSE {NoTx}) : Enter("library", c, a, tx)

(* bitcoind-cli runs a subcommand *)
Dispatch == \E c \in CliCalls : \E a \in CliArgs(c) : Enter("cli", c, a, CliTx(c))

(* bitcoind-cli get-blockheader is a todo!() *)
Todo ==
    /\ pc = "idle"
    /\ pc' = "todo"
    /\ caller' = "cli"
    /\ UNCHANGED <<call, supplied, args, i, first, sent, hexed, info>>

args_i == Len(args) - i
defaults_i == Len(call.defaults) - i
InLoop == pc = "loop" /\ i < Len(call.defaults)
NextIteration == i' = i + 1 /\ UNCHANGED <<caller, call, supplied, sent, hexed, info>>

(* A null with nothing supplied behind it stays *)
KeepNull ==
    /\ InLoop /\ args[args_i] = Null /\ first = 0
    /\ NextIteration
    /\ UNCHANGED <<pc, args, first>>

(* A null in front of a supplied argument becomes the default of its place *)
FillDefault ==
    /\ InLoop /\ args[args_i] = Null /\ first # 0
    /\ call.defaults[defaults_i] # Null
    /\ args' = [args EXCEPT ![args_i] = call.defaults[defaults_i]]
    /\ NextIteration
    /\ UNCHANGED <<pc, first>>

(* ... and panics when the table has none *)
MissingDefault ==
    /\ InLoop /\ args[args_i] = Null /\ first # 0
    /\ call.defaults[defaults_i] = Null
    /\ pc' = "missing default"
    /\ UNCHANGED <<caller, call, supplied, args, i, first, sent, hexed, info>>

Supplied_Latest ==
    /\ InLoop /\ args[args_i] # Null
    /\ first' = args_i
    /\ NextIteration
    /\ UNCHANGED <<pc, args>>

(* A supplied argument: the first one met is remembered *)
Supplied ==
    /\ InLoop /\ args[args_i] # Null
    /\ first' = IF first = 0 THEN args_i ELSE first
    /\ NextIteration
    /\ UNCHANGED <<pc, args>>

(* The slice returned to the method and sent by send_request *)
Send ==
    /\ pc = "loop" /\ i = Len(call.defaults)
    /\ sent' = SubSeq(args, 1, IF first # 0 THEN first ELSE Len(args) - Len(call.defaults))
    /\ pc' = "sent"
    /\ UNCHANGED <<caller, call, supplied, args, i, first, hexed, info>>

(* The request fails in transport, at the node or in decoding: the method  *)
(* returns an Error, and bitcoind-cli unwraps it                           *)
Fail ==
    /\ pc \in {"sent", "version"}
    /\ pc' = IF caller = "cli" THEN "unwrap" ELSE "err"
    /\ UNCHANGED <<caller, call, supplied, args, i, first, sent, hexed, info>>

(* The reply of every method but get_blockchain_info is its result *)
Reply ==
    /\ pc = "sent" /\ call # get_blockchain_info
    /\ pc' = "ok"
    /\ UNCHANGED <<caller, call, supplied, args, i, first, sent, hexed, info>>

(* The softfork fields of the reply: an array and a map of the old nodes,  *)
(* one map of the new ones                                                 *)
SoftforkFields(n) == IF n = "old" THEN {"softforks array", "bip9_softforks"} ELSE {"softforks map"}

(* get_blockchain_info keeps the raw reply and asks for the version *)
ReplyInfo ==
    /\ pc = "sent" /\ call = get_blockchain_info
    /\ raw' = SoftforkFields(node)
    /\ pc' = "version"
    /\ UNCHANGED <<caller, call, supplied, args, i, first, sent, hexed, node, replaced>>

Decodes_NoBranch(n) == {"softforks array", "bip9_softforks"} \subseteq raw

(* What the decoder of a version needs: for old nodes both old fields are  *)
(* removed from the reply and converted, for the others the reply is       *)
(* deserialized as it is                                                   *)
Decodes(n) ==
    IF n = "old" THEN {"softforks array", "bip9_softforks"} \subseteq raw
    ELSE "softforks array" \notin raw

(* The version picks the decoder; a reply it cannot read is an             *)
(* UnexpectedStructure or a Json error, which bitcoind-cli unwraps         *)
ReplyVersion ==
    /\ pc = "version"
    /\ pc' = IF Decodes(node) THEN "ok" ELSE IF caller = "cli" THEN "unwrap structure" ELSE "structure"
    /\ UNCHANGED <<caller, call, supplied, args, i, first, sent, hexed, info>>

(* The node is replaced by one of another version *)
ReplaceNode ==
    /\ pc \in {"sent", "version"} /\ call = get_blockchain_info
    /\ node' = IF node = "old" THEN "new" ELSE "old"
    /\ replaced' = (replaced \/ pc = "version")
    /\ UNCHANGED <<pc, caller, call, supplied, args, i, first, sent, hexed, raw>>

Next ==
    \/ Invoke \/ Dispatch \/ Todo
    \/ KeepNull \/ FillDefault \/ MissingDefault \/ Supplied \/ Send
    \/ Fail \/ Reply \/ ReplyInfo \/ ReplyVersion \/ ReplaceNode

Spec == Init /\ [][Next]_vars

-----------------------------------------------------------------------------
(* Properties *)

(* handle_defaults declaratively.  Only the last Len(defaults) places are  *)
(* looked at; the list ends at the last supplied one among them, or at the *)
(* required arguments, and every null of those places in front of its end  *)
(* is the default of its place.                                            *)
DefaultedFrom(c) == c.required + c.optional - Len(c.defaults)
LastSupplied(c, a) ==
    LET there == {n \in DefaultedFrom(c) + 1 .. Len(a) : a[n] # Null}
    IN  IF there = {} THEN DefaultedFrom(c) ELSE CHOOSE n \in there : \A m \in there : m <= n
WithDefaults(c, a) ==
    [n \in 1 .. LastSupplied(c, a) |->
        IF n > DefaultedFrom(c) /\ a[n] = Null THEN c.defaults[n - DefaultedFrom(c)] ELSE a[n]]

(* What the backward loop of handle_defaults sends is what its comment     *)
(* describes: no supplied argument is lost or moved, trailing nulls are    *)
(* dropped, and an omitted argument in front of a supplied one is the      *)
(* default of its own place (bitcoin/rpc.rs, 202-256).                     *)
SentIsWithDefaults == pc = "sent" => sent = WithDefaults(call, supplied)

(* No combination of Option parameters of any method reaches the panic     *)
(* `Missing default', but one: get_network_hash_ps with a height and no    *)
(* nblocks, whose table is two nulls (bitcoin/rpc.rs, 1343-1354).          *)
MissingDefaultCause ==
    pc = "missing default" => call = get_network_hash_ps /\ supplied = <<Null, Given>>

(* The node receives no null and every transaction as hex, but for:        *)
(* get_new_address and generate, which send their list without             *)
(* handle_defaults; list_since_block, whose table covers one of its four   *)
(* optional arguments; and bitcoind-cli send-raw-transaction, which hands  *)
(* over the bytes of the hex text and so encodes them twice.               *)
MalformedRequestCause ==
    pc = "sent" =>
        /\ (\E n \in DOMAIN sent : sent[n] = Null) =>
               call \in {get_new_address, generate, list_since_block}
        /\ call \in TxCalls => hexed = 1 \/ (caller = "cli" /\ call = send_raw_transaction)

(* get_blockchain_info reads the layout and the version in two requests:   *)
(* it fails on the structure of the reply only when the node was replaced  *)
(* between them, whatever its version was, and bitcoind-cli panics on it   *)
(* only then (bitcoin/rpc.rs, 499-568).                                    *)
InfoUndecodableCause == pc \in {"structure", "unwrap structure"} => replaced
=============================================================================
