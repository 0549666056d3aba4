SPECIFICATION Spec
CONSTANTS
  Pedido = {h1, h2, h3}
  Pokemon = {pikachu, onix}
  Posicion = {x1, x2}
  Cantidad = {1}
  Nulo = Nulo
  BLOCKS = 2
  MaxCaidas = 1
SYMMETRY Simetria
CHECK_DEADLOCK FALSE
INVARIANTS TypeOK ExclusionOpen ArchivoIntegro BloquesAjenos SemaforoListo
PROPERTY ImplementaMapa
