------------------------------- MODULE MCBarcodes -------------------------------
(* Two tills and the REST API put rows on the products.  The rows carry one code, *)
(* which all of them want: rows of different codes never meet.                    *)
EXTENDS Barcodes, TLC

CONSTANTS till1, till2, row1, row2, code1

Codes == [row \in Barcode |-> code1]
\* The first row is made on a till, the second one over REST.
Makers == [row \in Barcode |-> IF row = row1 THEN till1 ELSE None]
=============================================================================
