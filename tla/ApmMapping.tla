------------------------------ MODULE ApmMapping ------------------------------
(***************************************************************************)
(* The payment methods the server knows: the table of shared-types         *)
(* (apm-mapping.ts), what the harness says each can do (harness/synthetic- *)
(* capabilities.ts), and the catalog it serves.  A row keeps what decides  *)
(* where a method is offered; its wire fields and names are left out.      *)
(***************************************************************************)
EXTENDS HarnessScenarios, SequencesExt

Direct(id, pattern, currencies, countries) ==
  [id |-> id, pattern |-> pattern, currencies |-> currencies, countries |-> countries]

(* ppro, for each of its three patterns. *)
Redirect(id, currencies, countries) == Direct(id, "redirect", currencies, countries)
Qr(id, currencies, countries) == Direct(id, "qr", currencies, countries)
Voucher(id, currencies, countries) == Direct(id, "voucher", currencies, countries)

PPRO_METHODS ==
  {Redirect("ideal", <<"EUR">>, <<"NL">>),
   Redirect("bancontact", <<"EUR">>, <<"BE">>),
   Redirect("eps", <<"EUR">>, <<"AT">>), Redirect("blik", <<"PLN">>, <<"PL">>),
   Redirect("trustly", <<"SEK", "EUR">>, <<"SE", "FI", "DK", "EE", "LV",
       "LT">>),
   Redirect("wero", <<"EUR">>, <<"DE", "FR", "BE", "NL", "LU">>),
   Redirect("sofort", <<"EUR">>, <<"DE", "AT", "CH", "BE", "NL", "IT", "ES">>),
   Redirect("giropay", <<"EUR">>, <<"DE">>),
   Redirect("przelewy24", <<"PLN", "EUR">>, <<"PL">>),
   Redirect("postfinance", <<"CHF">>, <<"CH">>),
   Redirect("mbway", <<"EUR">>, <<"PT">>),
   Voucher("multibanco", <<"EUR">>, <<"PT">>),
   Redirect("swish", <<"SEK">>, <<"SE">>),
   Redirect("vipps", <<"NOK">>, <<"NO">>),
   Redirect("mobilepay", <<"DKK", "EUR">>, <<"DK", "FI">>),
   Redirect("twint", <<"CHF">>, <<"CH">>),
   Redirect("spei", <<"MXN">>, <<"MX">>), Redirect("pse", <<"COP">>, <<"CO">>),
   Redirect("webpay", <<"CLP">>, <<"CL">>),
   Redirect("mercadopago", <<"ARS", "BRL", "MXN", "COP", "CLP", "PEN",
       "UYU">>, <<"AR", "BR", "MX", "CO", "CL", "PE", "UY">>),
   Qr("pix", <<"BRL">>, <<"BR">>), Voucher("boleto", <<"BRL">>, <<"BR">>),
   Voucher("oxxo", <<"MXN">>, <<"MX">>),
   Voucher("efecty", <<"COP">>, <<"CO">>),
   Voucher("rapipago", <<"ARS">>, <<"AR">>),
   Voucher("pagoefectivo", <<"PEN">>, <<"PE">>),
   Qr("paynow", <<"SGD">>, <<"SG">>), Redirect("gcash", <<"PHP">>, <<"PH">>),
   Redirect("maya", <<"PHP">>, <<"PH">>),
   Redirect("linepay", <<"JPY", "TWD", "THB">>, <<"JP", "TW", "TH">>),
   Redirect("kakaopay", <<"KRW">>, <<"KR">>), Qr("dana", <<"IDR">>, <<"ID">>),
   Redirect("ovo", <<"IDR">>, <<"ID">>),
   Redirect("shopeepay", <<"IDR", "PHP", "THB", "VND", "MYR", "SGD">>, <<"ID",
       "PH", "TH", "VN", "MY", "SG">>),
   Redirect("touchngo", <<"MYR">>, <<"MY">>),
   Qr("alipay", <<"CNY">>, <<"CN">>), Qr("paypay", <<"JPY">>, <<"JP">>),
   Qr("upi", <<"INR">>, <<"IN">>), Voucher("konbini", <<"JPY">>, <<"JP">>),
   Redirect("mybank", <<"EUR">>, <<"IT">>),
   Redirect("finlandbanks", <<"EUR">>, <<"FI">>),
   Voucher("baloto", <<"COP">>, <<"CO">>),
   Voucher("pagofacil", <<"ARS">>, <<"AR">>),
   Voucher("redpagos", <<"UYU">>, <<"UY">>),
   Redirect("sepa", <<"EUR">>, <<"DE", "FR", "IT", "ES", "NL", "BE", "AT",
       "PT", "IE", "FI", "LU">>),
   Redirect("becs", <<"AUD">>, <<"AU">>),
   Redirect("bacs", <<"GBP">>, <<"GB">>),
   Redirect("paybybank", <<"GBP">>, <<"GB">>),
   Qr("ppro_wechatpay", <<"CNY">>, <<"CN">>),
   Redirect("ppro_naverpay", <<"KRW">>, <<"KR">>),
   Qr("ppro_gopay", <<"IDR">>, <<"ID">>),
   Qr("ppro_truemoney", <<"THB">>, <<"TH">>),
   Qr("ppro_promptpay", <<"THB">>, <<"TH">>),
   Qr("ppro_momo", <<"VND">>, <<"VN">>)}

DIRECT_METHODS ==
  {Direct("applepay", "native-wallet", <<>>, <<>>),
   Direct("googlepay", "native-wallet", <<>>, <<>>),
   Direct("paypal", "button-sdk", <<"USD", "EUR", "GBP", "CAD", "AUD", "JPY",
       "MXN", "BRL">>, <<>>),
   Direct("paypal_paylater", "button-sdk", <<"USD", "EUR", "GBP">>, <<"US",
       "GB", "DE", "FR", "AU">>),
   Direct("venmo", "button-sdk", <<"USD">>, <<"US">>),
   Direct("cashapp", "redirect", <<"USD">>, <<"US">>),
   Direct("klarna", "bnpl", <<"USD", "EUR", "GBP", "SEK", "NOK", "DKK", "AUD",
       "CAD", "CHF", "PLN">>, <<"US", "GB", "DE", "AT", "CH", "NL", "BE",
       "SE", "NO", "DK", "FI", "IT", "ES", "FR", "AU", "CA">>),
   Direct("affirm", "bnpl", <<"USD">>, <<"US", "CA">>),
   Direct("afterpay", "bnpl", <<"USD", "GBP", "EUR", "AUD", "CAD", "NZD">>,
       <<"US", "GB", "AU", "NZ", "CA">>),
   Direct("sezzle", "bnpl", <<"USD", "CAD">>, <<"US", "CA">>),
   Direct("zip", "bnpl", <<"USD", "AUD", "NZD", "GBP">>, <<"US", "AU", "NZ",
       "GB">>),
   Direct("alipayplus", "qr", <<"USD", "CNY", "HKD", "SGD", "JPY", "KRW",
       "THB", "MYR">>, <<"CN", "HK", "SG", "JP", "KR", "TH", "MY", "PH",
       "ID">>),
   Direct("wechatpay", "qr", <<"CNY", "USD">>, <<"CN">>),
   Direct("grabpay", "redirect", <<"SGD", "MYR", "PHP", "THB", "VND", "IDR">>,
       <<"SG", "MY", "PH", "TH", "VN", "ID">>),
   Direct("zepto", "redirect", <<"AUD">>, <<"AU">>),
   Direct("tabapay", "redirect", <<"USD">>, <<"US">>)}

(* A second row with the id of another one would be refused at import.     *)
ApmIds == {row.id : row \in PPRO_METHODS \cup DIRECT_METHODS}

APM_MAPPING ==
  [id \in ApmIds |-> CHOOSE row \in PPRO_METHODS \cup DIRECT_METHODS : row.id = id]

-----------------------------------------------------------------------------
(* buildSyntheticCapabilities: an override changes neither what a method   *)
(* can do with an order nor when it does; only how its sheet is shown and  *)
(* which callbacks it has.                                                 *)
Capabilities(id) == PatternDefaults[APM_MAPPING[id].pattern]

(* getEligibleApms.  An empty list of countries or currencies is all.      *)
Sold(list, x) == list # <<>> => x \in Range(list)

EligibleFor(id, country, currency, captureMode) ==
  /\ Sold(APM_MAPPING[id].countries, country)
  /\ Sold(APM_MAPPING[id].currencies, currency)
  /\ captureMode = "MERCHANT" => /\ Capabilities(id).merchantInitiated
                                  /\ Capabilities(id).separateCapture
  /\ captureMode = "GATEWAY" => Capabilities(id).gatewayInitiated

=============================================================================
